---------------------------- MODULE Spec2Model ----------------------------
(***************************************************************************)
(* Attribute-gated, multi-authority key issuance (smart-zk).               *)
(*                                                                         *)
(* Five specifications share this module:                                  *)
(*   SetupSpec     : the authorities' commit-reveal parameter agreement    *)
(*                   (src/src/authority.py, src/src/mpc_setup.py)          *)
(*   Spec          : one authority's key-issuance server with concurrent   *)
(*                   connections, proof-gated path                         *)
(*                   (src/src/server_authority.py,                         *)
(*                   src/src/authority_key_generation.py)                  *)
(*   HandshakeSpec : the same server, handshake-signature path             *)
(*   ReaderSpec    : one run of the reader's decryption workflow           *)
(*                   (src/src/reader.py)                                   *)
(*   CertifierSpec : runs of the attribute certifier                       *)
(*                   (src/src/attribute_certifier.py)                      *)
(***************************************************************************)
EXTENDS Integers, Sequences, FiniteSets, TLC

VARIABLES
    \* ---- ledger (smart contract) entries of the parameter agreement ----
    elementHashed,      \* authority -> published commitment pair, or Void
    element,            \* authority -> published raw (serialized) pair, or Void
    parametersLink,     \* authority -> published link of its public parameters
    ipfs,               \* content-addressed store: set of stored contents
    \* ---- each authority's private sqlite database and process ----
    h_values,           \* authority -> row of table h_values, or Void
    g_values,           \* authority -> row of table g_values, or Void
    public_parameters,  \* authority -> row of table public_parameters, or Void
    authPc,             \* authority -> position in main()
    runs,               \* authority -> number of times main() was started
    retry_count,        \* authority -> retry counter of the wait loop (capped)
    lastAgg,            \* authority -> locals of its last completed aggregation
                        \* and the number of aggregations it completed
    \* ---- one key-issuance server (AuthorityServer) ----
    authority_number,   \* self.authority_number
    zk_enabled,         \* self.zk_enabled
    today,              \* the server's clock (a date)
    handshake_numbers,  \* table handshake_numbers: reader -> stored nonce
    proof_verifications,\* table proof_verifications: reader -> last row
    reader_keys,        \* public-key directory: reader -> published key file
    keys_per_nonce,     \* reader -> fragments issued on the handshake path
                        \* since the last Start handshake for it (history)
    conn,               \* connection -> state of its handler thread
    \* ---- one run of the reader's decryption workflow (reader.start) ----
    rd,                 \* the reader process: position, locals, files written
    \* ---- the attribute certifier and what it published ----
    cert,               \* the certifier: runs, private store, registry, bundles
    \* ---- single functions and helpers, run on their own ----
    codec,              \* calls of the commitment function and their results
    txn,                \* one call of block_int.__send_txt__
    rp,                 \* one retrieval of the public parameters by a client
    reader_attributes,  \* table reader_attributes of the readers' database
    enc                 \* one message of the data owner and one decryption of it

setupVars  == <<elementHashed, element, parametersLink, ipfs, h_values,
                g_values, public_parameters, authPc, runs, retry_count,
                lastAgg>>
serverVars == <<authority_number, zk_enabled, today, handshake_numbers,
                proof_verifications, reader_keys, keys_per_nonce, conn>>
auxVars    == <<codec, txn, rp, reader_attributes, enc>>
clientVars == <<rd, cert, auxVars>>
vars       == <<setupVars, serverVars, clientVars>>

-----------------------------------------------------------------------------
(* Bounds of the model *)

\* number of authorities (length of authorities_addresses)
NumAuthorities == 2
\* how many times one authority's setup script is started for the instance
MaxRuns == 2
\* cap on the wait loop's retry counter (the code has none)
MaxRetry == 1

Authorities == 1..NumAuthorities

Void == <<>>

-----------------------------------------------------------------------------
(* Pairing-group stand-in: a small multiplicative group (Z_7)^*.           *)

\* elements groupObj.random(G1) / groupObj.random(G2) may return
G1Elems == {2, 3}
G2Elems == {3, 5}

\* the group law used by "value1 * com1[i]"
GroupMul(x, y) == (x * y) % 7

\* groupObj.serialize / groupObj.deserialize: an injective encoding
Serialize(g)   == 40 + g
Deserialize(b) == b - 40

\* hashlib.sha256(...).hexdigest(): injective on the encodings in use
Sha256(b) == 1000 + ((b * 37) % 211)

\* mpc_setup.commit
commit(g1, g2) == <<Sha256(Serialize(g1)), Sha256(Serialize(g2))>>

\* mpc_setup.generateParameters: the plain product of the revealed elements.
\* hashes1 / hashes2 are accepted and never read ("MPC bypass").
RECURSIVE Product(_)
Product(s) == IF s = <<>> THEN 1 ELSE GroupMul(Head(s), Product(Tail(s)))

generateParameters(hashes1, hashes2, com1, com2) ==
    <<Product(com1), Product(com2)>>

\* maabe.setup(value1, value2), reduced to its first three items (g1, g2, egg)
Pairing(x, y) == (x * x * y) % 7
maabe_setup(value1, value2) ==
    [g1 |-> value1, g2 |-> value2, egg |-> Pairing(value1, value2)]

\* objectToBytes(...).decode('utf-8'): the stored text of the parameters
objectToBytes(pp) == <<"pp", pp.g1, pp.g2, pp.egg>>

\* api.add_json: the content identifier of a stored content
add_json(content) == <<"Qm", content>>

-----------------------------------------------------------------------------
(* Authority setup: main() of authority.py, one process per authority       *)

SetupInit ==
    /\ elementHashed     = [a \in Authorities |-> Void]
    /\ element           = [a \in Authorities |-> Void]
    /\ parametersLink    = [a \in Authorities |-> Void]
    /\ ipfs              = {}
    /\ h_values          = [a \in Authorities |-> Void]
    /\ g_values          = [a \in Authorities |-> Void]
    /\ public_parameters = [a \in Authorities |-> Void]
    /\ authPc            = [a \in Authorities |-> "off"]
    /\ runs              = [a \in Authorities |-> 0]
    /\ retry_count       = [a \in Authorities |-> 0]
    /\ lastAgg           = [a \in Authorities |-> Void]

\* "INSERT OR REPLACE": the row is written whatever the key holds
InsertOrReplace(table, key, row) == [table EXCEPT ![key] = row]

\* "INSERT OR IGNORE": the row is written only when the key has no row yet
InsertOrIgnore(table, key, row) ==
    IF table[key] = Void THEN [table EXCEPT ![key] = row] ELSE table

\* python authority.py -a <a>: main() starts (also a re-run for the same
\* process instance after the previous process ended or was terminated)
StartMain(a) ==
    /\ runs[a] < MaxRuns
    /\ authPc[a] \in {"off", "hashed", "revealed", "done"}
    /\ runs' = [runs EXCEPT ![a] = @ + 1]
    /\ authPc' = [authPc EXCEPT ![a] = "start"]
    /\ retry_count' = [retry_count EXCEPT ![a] = 0]
    /\ UNCHANGED <<serverVars, clientVars, elementHashed, element, parametersLink, ipfs, h_values,
                   g_values, public_parameters, lastAgg>>

\* Authority.initial_parameters_hashed
initial_parameters_hashed_nosend(a) ==
    /\ authPc[a] = "start"
    /\ \E g1_1 \in G1Elems, g2_1 \in G2Elems :
         /\ h_values' = InsertOrIgnore(h_values, a, commit(g1_1, g2_1))
         /\ g_values' = InsertOrIgnore(g_values, a,
                                       <<Serialize(g1_1), Serialize(g2_1)>>)
    /\ authPc' = [authPc EXCEPT ![a] = "hashed"]
    /\ UNCHANGED <<serverVars, clientVars, elementHashed, element, parametersLink, ipfs,
                   public_parameters, runs, retry_count, lastAgg>>

initial_parameters_hashed(a) ==
    /\ authPc[a] = "start"
    /\ \E g1_1 \in G1Elems, g2_1 \in G2Elems :
         LET h == commit(g1_1, g2_1) IN
         /\ elementHashed' = [elementHashed EXCEPT ![a] = h]
         /\ h_values' = InsertOrIgnore(h_values, a, h)
         /\ g_values' = InsertOrIgnore(g_values, a,
                                       <<Serialize(g1_1), Serialize(g2_1)>>)
    /\ authPc' = [authPc EXCEPT ![a] = "hashed"]
    /\ UNCHANGED <<serverVars, clientVars, element, parametersLink, ipfs, public_parameters, runs,
                   retry_count, lastAgg>>

\* Authority.initial_parameters
initial_parameters(a) ==
    /\ authPc[a] = "hashed"
    /\ element' = [element EXCEPT ![a] = g_values[a]]
    /\ authPc' = [authPc EXCEPT ![a] = "revealed"]
    /\ UNCHANGED <<serverVars, clientVars, elementHashed, parametersLink, ipfs, h_values, g_values,
                   public_parameters, runs, retry_count, lastAgg>>

\* "void_bytes in g1g2_hashed": the retrieved hashes are decoded to str, and
\* a bytes value never equals a str, so this test is never true
VoidInHashed(g1g2_hashed) == FALSE
\* "void_bytes in g1g2": an unset ledger entry reads as zero bytes
VoidInElements(g1g2) == g1g2 = Void

\* the first authority, in authorities_addresses order, at which
\* generate_public_parameters returns False; 0 when there is none
FirstMissing ==
    LET miss == {i \in Authorities :
                    VoidInHashed(elementHashed[i]) \/ VoidInElements(element[i])}
    IN IF miss = {} THEN 0 ELSE CHOOSE i \in miss : \A j \in miss : i <= j

\* a wait loop that leaves after MaxRetry polls
generate_public_parameters_wait_capped(a) ==
    /\ authPc[a] = "revealed"
    /\ FirstMissing # 0
    /\ IF retry_count[a] < MaxRetry
       THEN /\ retry_count' = [retry_count EXCEPT ![a] = @ + 1]
            /\ UNCHANGED authPc
       ELSE /\ authPc' = [authPc EXCEPT ![a] = "done"]
            /\ UNCHANGED retry_count
    /\ UNCHANGED <<serverVars, clientVars, elementHashed, element, parametersLink, ipfs, h_values,
                   g_values, public_parameters, runs, lastAgg>>

\* Authority.generate_public_parameters returning False, and the wait loop
\* of main() counting the retry
generate_public_parameters_wait(a) ==
    /\ authPc[a] = "revealed"
    /\ FirstMissing # 0
    /\ retry_count[a] < MaxRetry
    /\ retry_count' = [retry_count EXCEPT ![a] = @ + 1]
    /\ UNCHANGED <<serverVars, clientVars, elementHashed, element, parametersLink, ipfs, h_values,
                   g_values, public_parameters, authPc, runs, lastAgg>>

\* the locals of generate_public_parameters once every entry is present
AggLocals ==
    LET hashed(i) == IF elementHashed[i] = Void THEN <<0, 0>>
                                                ELSE elementHashed[i]
        hashes1 == [i \in 1..NumAuthorities |-> hashed(i)[1]]
        hashes2 == [i \in 1..NumAuthorities |-> hashed(i)[2]]
        com1    == [i \in 1..NumAuthorities |-> Deserialize(element[i][1])]
        com2    == [i \in 1..NumAuthorities |-> Deserialize(element[i][2])]
    IN [hashes1 |-> hashes1, hashes2 |-> hashes2, com1 |-> com1, com2 |-> com2]

\* the common tail of generate_public_parameters: store and publish pp
StoreAndPublish(a, loc, pp) ==
    LET file_to_str == objectToBytes(pp)
        hash_file   == add_json(file_to_str)
    IN /\ ipfs' = ipfs \cup {file_to_str}
       /\ public_parameters' =
              InsertOrIgnore(public_parameters, a, <<hash_file, file_to_str>>)
       /\ parametersLink' = [parametersLink EXCEPT ![a] = hash_file]
       /\ lastAgg' = [lastAgg EXCEPT ![a] =
                         <<loc.hashes1, loc.hashes2, loc.com1, loc.com2,
                           file_to_str,
                           IF lastAgg[a] = Void THEN 1 ELSE lastAgg[a][6] + 1>>]
       /\ authPc' = [authPc EXCEPT ![a] = "done"]
       /\ UNCHANGED <<serverVars, clientVars, elementHashed, element, h_values, g_values, runs,
                      retry_count>>

\* a setup that samples its own generators instead of using the aggregate
generate_public_parameters_fresh(a) ==
    /\ authPc[a] = "revealed"
    /\ FirstMissing = 0
    /\ \E r1 \in G1Elems, r2 \in G2Elems :
         StoreAndPublish(a, AggLocals, maabe_setup(r1, r2))

\* Authority.generate_public_parameters returning True
generate_public_parameters(a) ==
    /\ authPc[a] = "revealed"
    /\ FirstMissing = 0
    /\ LET loc == AggLocals
           v   == generateParameters(loc.hashes1, loc.hashes2, loc.com1, loc.com2)
       IN StoreAndPublish(a, loc, maabe_setup(v[1], v[2]))

SetupNext ==
    \E a \in Authorities :
        \/ StartMain(a)
        \/ initial_parameters_hashed(a)
        \/ initial_parameters(a)
        \/ generate_public_parameters_wait(a)
        \/ generate_public_parameters(a)

-----------------------------------------------------------------------------
(* Integers that exceed the 32-bit integers of TLC (attribute secrets,  *)
(* label encodings, commitments) are kept as little-endian base-256 digit   *)
(* sequences without trailing zeros; the arithmetic below is exact.         *)

RECURSIVE ToDigits(_)
ToDigits(n) == IF n = 0 THEN <<>> ELSE <<n % 256>> \o ToDigits(n \div 256)

RECURSIVE MulSmall(_, _, _)
MulSmall(a, k, carry) ==
    IF a = <<>> THEN ToDigits(carry)
    ELSE LET x == Head(a) * k + carry
         IN <<x % 256>> \o MulSmall(Tail(a), k, x \div 256)

RECURSIVE AddDigits(_, _, _)
AddDigits(a, b, carry) ==
    IF a = <<>> /\ b = <<>> THEN ToDigits(carry)
    ELSE LET x == (IF a = <<>> THEN 0 ELSE Head(a))
                  + (IF b = <<>> THEN 0 ELSE Head(b)) + carry
         IN <<x % 256>> \o AddDigits(IF a = <<>> THEN <<>> ELSE Tail(a),
                                     IF b = <<>> THEN <<>> ELSE Tail(b),
                                     x \div 256)

\* powers_of_31 of compute_pedersen_hash
powers_of_31 == <<1, 31, 961, 29791, 923521>>

\* zksnark.utils.compute_pedersen_hash on (at most five) integer values:
\* the weighted sum, without any modulo
RECURSIVE WeightedSum(_, _)
WeightedSum(int_values, i) ==
    IF i > Len(int_values) THEN <<>>
    ELSE AddDigits(MulSmall(int_values[i], powers_of_31[i], 0),
                   WeightedSum(int_values, i + 1), 0)

compute_pedersen_hash(int_values) == WeightedSum(int_values, 1)

-----------------------------------------------------------------------------
(* Attribute labels. A label is named by a string; Ord gives its characters *)
(* (code points), which is what the conversions of the code work on.        *)

Ord(label) ==
    CASE label = "MANUFACTURER" -> <<77, 65, 78, 85, 70, 65, 67, 84, 85, 82, 69, 82>>
      [] label = "ROLE_QA"      -> <<82, 79, 76, 69, 95, 81, 65>>
      [] label = "CUSTOMS"      -> <<67, 85, 83, 84, 79, 77, 83>>
      [] label = "MANUFACTURING" ->
            <<77, 65, 78, 85, 70, 65, 67, 84, 85, 82, 73, 78, 71>>

Lower(chars) ==
    [i \in 1..Len(chars) |->
        IF chars[i] >= 65 /\ chars[i] <= 90 THEN chars[i] + 32 ELSE chars[i]]

\* Python's "sub in s"
Contains(s, sub) ==
    \E i \in 0..(Len(s) - Len(sub)) :
        \A j \in 1..Len(sub) : s[i + j] = sub[j]

\* attribute_certifier.py: attr_type from the label
AttrTypeOf(label) ==
    IF Contains(Lower(Ord(label)), <<114, 111, 108, 101>>) THEN 1
    ELSE IF Contains(Lower(Ord(label)),
                     <<100, 101, 112, 97, 114, 116, 109, 101, 110, 116>>) THEN 2
    ELSE 0

\* sum(ord(c) * (256 ** i) for i, c in enumerate(attr_value[:8])): the first
\* eight characters are the base-256 digits of the number
AttrValueNumeric(label) ==
    LET chars == Ord(label)
    IN SubSeq(chars, 1, IF Len(chars) < 8 THEN Len(chars) ELSE 8)

\* the commitment of an attribute tuple, as the certifier and the reader
\* compute it
Commitment(t) ==
    compute_pedersen_hash(<<ToDigits(t.secret), AttrValueNumeric(t.value),
                            ToDigits(t.auth), ToDigits(t.type),
                            ToDigits(t.expiry)>>)

-----------------------------------------------------------------------------
(* The certified world the key-issuance server runs in: the outcome of one  *)
(* run of attribute_certifier.generate_attributes.                          *)

Readers == {"r1", "r2"}
Conns   == {"c1", "c2"}

\* dates are counted in protocol periods (years); the last date considered
MaxDate == 3

\* the date of the certifier's run, and "year + 1"
CertDate     == 1
ExpiryPeriod == 1

\* the (user, attribute) pairs of roles.json with the secret drawn for each
RolesInput ==
    { [address |-> "r1", value |-> "MANUFACTURER", auth |-> 1, secret |-> 11],
      [address |-> "r1", value |-> "ROLE_QA",      auth |-> 1, secret |-> 12],
      [address |-> "r2", value |-> "CUSTOMS",      auth |-> 2, secret |-> 13] }

\* the attribute tuple the certifier builds for one input pair
CertifiedTuple(i) ==
    [secret |-> i.secret, value |-> i.value, auth |-> i.auth,
     type |-> AttrTypeOf(i.value), expiry |-> CertDate + ExpiryPeriod]

\* attribute_commitments as persisted in the certifier's private store
CertifierRows ==
    { [address |-> i.address, tuple |-> CertifiedTuple(i),
       commitment |-> Commitment(CertifiedTuple(i))] : i \in RolesInput }

\* getAttributeCommitment(gid, auth_id, attr_type) of the ledger registry:
\* the set of commitments published under that key
get_attribute_commitment(gid, auth_id, attr_type) ==
    { r.commitment : r \in { x \in CertifierRows :
                                /\ x.address = gid
                                /\ x.tuple.auth = auth_id
                                /\ x.tuple.type = attr_type } }

\* the label "<process_instance_id>" of the bundle's process attributes
PI == "PI"

\* dict_users of the published bundle: address -> labels "<value>@AUTH<auth>"
dict_users ==
    [r \in Readers |->
        { [value |-> PI, auth |-> a] : a \in Authorities }
        \cup { [value |-> i.value, auth |-> i.auth] :
                 i \in { x \in RolesInput : x.address = r } }]

-----------------------------------------------------------------------------
(* The zero-knowledge capability (circuit "proof_of_attribute").            *)

\* the public signals of a circuit input, in the order the server indexes
\* them: [-2] is expected_authority_id, [-1] is expected_attr_type
PublicSignals(in) ==
    <<in.attr_commitment, in.current_date, in.expected_authority_id,
      in.expected_attr_type>>

\* the relation the circuit enforces between private and public inputs
CircuitSatisfied(in) ==
    /\ in.attr_commitment =
         compute_pedersen_hash(<<ToDigits(in.attr_secret), in.attr_value,
                                 ToDigits(in.authority_id),
                                 ToDigits(in.attr_type),
                                 ToDigits(in.expiry_date)>>)
    /\ in.authority_id = in.expected_authority_id
    /\ in.attr_type = in.expected_attr_type
    /\ in.expiry_date >= in.current_date

\* reader.request_key_with_proof: the circuit input built from a tuple
input_data(t, current_date) ==
    [attr_secret |-> t.secret, attr_value |-> AttrValueNumeric(t.value),
     authority_id |-> t.auth, attr_type |-> t.type, expiry_date |-> t.expiry,
     attr_commitment |-> Commitment(t), current_date |-> current_date,
     expected_authority_id |-> t.auth, expected_attr_type |-> t.type]

\* a proof is bound to the public signals it was generated for; Forged is a
\* proof object that no run of the prover produced
Forged == <<>>
generate_proof(in) == PublicSignals(in)

\* zksnark.verifier.verify_proof_offchain (snarkjs groth16 verify)
verify_proof_offchain(proof, public_inputs) ==
    proof # Forged /\ proof = public_inputs

-----------------------------------------------------------------------------
(* Requests a client may send on the proof-gated path.                      *)

\* a tuple of the requester's own making (own secret) that no certifier
\* committed to, for each authority
FabricatedTuples ==
    { [secret |-> 99, value |-> "MANUFACTURER", auth |-> a, type |-> 0,
       expiry |-> CertDate + ExpiryPeriod] : a \in Authorities }

\* the dates a requester may put into current_date
CurrentDates == {CertDate, MaxDate}

\* what the prover yields for a set of tuples: it fails when the input
\* violates the circuit
StatementsOf(tuples) ==
    { generate_proof(input_data(x[1], x[2])) :
        x \in { y \in tuples \X CurrentDates :
                  CircuitSatisfied(input_data(y[1], y[2])) } }

CertifiedStatements == StatementsOf({ r.tuple : r \in CertifierRows })

\* a statement with its authority signal replaced
WithAuthority(sig, a) == <<sig[1], sig[2], a, sig[4]>>

\* (proof, publicSignals) pairs a dishonest requester may send: a valid proof
\* over a fabricated tuple, a valid proof whose authority signal was altered
\* after proving, a forged proof
DishonestPayloads ==
    { <<s, s>> : s \in StatementsOf(FabricatedTuples) }
    \cup { <<x[1], WithAuthority(x[1], x[2])>> :
             x \in { y \in CertifiedStatements \X Authorities :
                       y[1][3] # y[2] } }
    \cup { <<Forged, s>> : s \in CertifiedStatements }

\* the reader that also sends the dishonest and the malformed requests
DishonestReader == "r1"

CmdStart    == "Start handshake"
CmdGenerate == "Generate your part of my key"
CmdZK       == "ZK-Generate your part of my key"
DISCONNECT_MESSAGE == "!DISCONNECT"

\* a received message: message[0] is "Auth-<tag> - <cmd>"; nfields is
\* len(message) and json tells whether fields 4 and 5 parse as JSON
Msg(cmd, tag, gid, reader, signature, proof, signals, nfields, json) ==
    [cmd |-> cmd, tag |-> tag, gid |-> gid, reader |-> reader,
     signature |-> signature, proof |-> proof, signals |-> signals,
     nfields |-> nfields, json |-> json]

NoMsg == Msg("", 0, "", "", 0, <<>>, <<>>, 0, TRUE)

\* the ZK-Generate messages: reader.request_key_with_proof for a tuple the
\* reader holds (GID and reader address are both the sender's address), sent
\* to every authority, the dishonest and malformed requests, and the
\* dishonest reader's own valid proofs sent with another reader's GID
ZKMessages ==
    { Msg(CmdZK, tag, r.address, r.address, 0, s, s, 6, TRUE) :
             <<tag, r, s>> \in
                { x \in Authorities \X CertifierRows \X CertifiedStatements :
                    x[3] \in StatementsOf({x[2].tuple}) } }
    \cup { Msg(CmdZK, x[1], DishonestReader, DishonestReader, 0,
               x[2][1], x[2][2], 6, TRUE) :
             x \in Authorities \X DishonestPayloads }
    \cup { Msg(CmdZK, tag, DishonestReader, DishonestReader, 0,
               <<>>, <<>>, 6, FALSE) : tag \in Authorities }
    \cup { Msg(CmdZK, tag, DishonestReader, DishonestReader, 0,
               <<>>, <<>>, 5, TRUE) : tag \in Authorities }
    \cup { Msg(CmdZK, x[1], x[2], DishonestReader, 0, x[3], x[3], 6, TRUE) :
             x \in Authorities \X (Readers \ {DishonestReader})
                     \X StatementsOf({ r.tuple : r \in
                            { y \in CertifierRows :
                                y.address = DishonestReader } }) }

-----------------------------------------------------------------------------
(* AuthorityServer: one handler thread per accepted connection.             *)
(* A handler's state: pc (closed / awaiting / verified / crashed), req (the *)
(* message being handled, or last handled), result (the value               *)
(* verify_attribute_proof returned to this handler), resp (the last         *)
(* response it sent, with the date it was sent on).                         *)
(* The tables are keyed by (process_instance, reader_address); the model    *)
(* runs one process instance, so the key is the reader address.             *)

NoKey == [auth |-> 0, GID |-> "", attrs |-> {}]

Resp(kind, number, key, error) ==
    [kind |-> kind, number |-> number, key |-> key, error |-> error,
     date |-> today]

NoResp == [kind |-> "none", number |-> 0, key |-> NoKey, error |-> "",
           date |-> 0]

IdleHandler == [pc |-> "closed", req |-> NoMsg, result |-> FALSE,
                resp |-> NoResp]

-----------------------------------------------------------------------------
(* The handshake-signature path: textbook RSA over sha512, as               *)
(* check_handshake computes it, on small keys.                              *)

\* random.randint(1, 2 ** 64), on a small range
MaxNonce == 2
Nonces   == 1..MaxNonce

\* pow(b, e, n)
RECURSIVE PowMod(_, _, _)
PowMod(b, e, n) == IF e = 0 THEN 1 % n ELSE (b * PowMod(b, e - 1, n)) % n

\* int.from_bytes(sha512(str(number_to_sign).encode()).digest(), 'big'):
\* injective on the nonces, and below every modulus in use
Sha512(number) == 2 + ((number * 5) % 29)

\* the public key (n, e) each reader published
PublicKey(r) ==
    IF r = "r1" THEN [n |-> 33, e |-> 3] ELSE [n |-> 51, e |-> 3]

\* the key file "reader_address: <a>###<n>###<e>" of the directory
KeyFile(named, owner) ==
    [address |-> named, n |-> PublicKey(owner).n, e |-> PublicKey(owner).e]

\* the directory states considered: every reader published its own file, or
\* the entry of r2 holds a file that names r1 and carries r1's key
KeyDirectories ==
    { [r \in Readers |-> KeyFile(r, r)],
      [r \in Readers |-> KeyFile("r1", "r1")] }

\* the signature values a client may send: every value that verifies under
\* some published key against some number, and one that verifies nowhere
Signatures ==
    { s \in 0..50 : \E r \in Readers, number \in Nonces :
                       /\ s < PublicKey(r).n
                       /\ PowMod(s, PublicKey(r).e, PublicKey(r).n)
                            = Sha512(number) }
    \cup {0}

HandshakeMessages ==
    { Msg(CmdGenerate, x[1], x[2], x[2], x[3], <<>>, <<>>, 5, TRUE) :
        x \in Authorities \X Readers \X Signatures }

\* a completed parameter agreement (every authority ran main() once)
SetupDone ==
    LET g(a)  == <<Serialize(2), Serialize(3)>>
        pp    == maabe_setup(GroupMul(2, 2), GroupMul(3, 3))
        text  == objectToBytes(pp)
    IN
    /\ elementHashed     = [a \in Authorities |-> commit(2, 3)]
    /\ element           = [a \in Authorities |-> g(a)]
    /\ parametersLink    = [a \in Authorities |-> add_json(text)]
    /\ ipfs              = {text}
    /\ h_values          = [a \in Authorities |-> commit(2, 3)]
    /\ g_values          = [a \in Authorities |-> g(a)]
    /\ public_parameters = [a \in Authorities |-> <<add_json(text), text>>]
    /\ authPc            = [a \in Authorities |-> "done"]
    /\ runs              = [a \in Authorities |-> 1]
    /\ retry_count       = [a \in Authorities |-> 0]
    /\ lastAgg           = [a \in Authorities |-> Void]

\* AuthorityServer.__init__ and start(), for any authority index and with
\* or without --disable-zk
ServerInit ==
    /\ authority_number \in Authorities
    /\ zk_enabled \in BOOLEAN
    /\ today = CertDate
    /\ handshake_numbers = [r \in Readers |-> 0]
    /\ proof_verifications = [r \in Readers |-> Void]
    /\ reader_keys \in KeyDirectories
    /\ keys_per_nonce = [r \in Readers |-> 0]
    /\ conn = [c \in Conns |-> IdleHandler]

\* authority_key_generation.generate_user_key: the process attribute of this
\* authority plus every label of the reader's bundle entry that ends with
\* this authority's name
generate_user_key(auth, gid, reader_address) ==
    [auth |-> auth, GID |-> gid,
     attrs |-> {[value |-> PI, auth |-> auth]}
               \cup { k \in dict_users[reader_address] :
                        k.auth = auth /\ k.value # PI }]

\* public_signals[-2]
AuthorityIdOf(public_signals) == public_signals[Len(public_signals) - 1]

\* verify_attribute_proof, lines 86-92, with the authority test left out
ProofIsForThisAuthority_skipped(public_signals) == TRUE

\* verify_attribute_proof, lines 86-92: "int(authority_id) !=
\* self.authority_number" returns False
ProofIsForThisAuthority(public_signals) ==
    AuthorityIdOf(public_signals) = authority_number

\* verify_attribute_proof without the test of self.zk_enabled (lines 76-78)
ReachesVerifier_ignoringFlag(public_signals) ==
    ProofIsForThisAuthority(public_signals)

\* whether verify_attribute_proof reaches the verifier and logs the result
ReachesVerifier(public_signals) ==
    zk_enabled /\ ProofIsForThisAuthority(public_signals)

\* AuthorityServer.verify_attribute_proof: the returned value
verify_attribute_proof(proof, public_signals) ==
    /\ ReachesVerifier(public_signals)
    /\ verify_proof_offchain(proof, public_signals)

\* the verdict read back from the shared verification log
IssuingVerdict_fromLog(c) ==
    LET row == proof_verifications[conn[c].req.reader]
    IN IF row = Void THEN conn[c].result ELSE row[3]

\* handle_client line 140: the verdict the handler acts on is the value
\* returned to it
IssuingVerdict(c) == conn[c].result

\* start(): accept() and a new handler thread
Accept(c) ==
    /\ conn[c].pc = "closed"
    /\ conn' = [conn EXCEPT ![c] = [IdleHandler EXCEPT !.pc = "awaiting"]]
    /\ UNCHANGED <<setupVars, clientVars, authority_number, zk_enabled, today, handshake_numbers,
                   proof_verifications, reader_keys, keys_per_nonce>>

\* handle_client, ZK-Generate with fewer than six fields
ReceiveZKShort(c) ==
    /\ conn[c].pc = "awaiting"
    /\ \E m \in ZKMessages :
         /\ m.tag = authority_number
         /\ m.nfields < 6
         /\ conn' = [conn EXCEPT ![c] =
               [pc |-> "awaiting", req |-> m, result |-> FALSE,
                resp |-> Resp("error", 0, NoKey,
                    "Missing required parameters for ZK key generation")]]
    /\ UNCHANGED <<setupVars, clientVars, authority_number, zk_enabled, today, handshake_numbers,
                   proof_verifications, reader_keys, keys_per_nonce>>

\* handle_client, ZK-Generate whose proof or signals are not JSON
ReceiveZKBadJson(c) ==
    /\ conn[c].pc = "awaiting"
    /\ \E m \in ZKMessages :
         /\ m.tag = authority_number
         /\ m.nfields >= 6
         /\ ~m.json
         /\ conn' = [conn EXCEPT ![c] =
               [pc |-> "awaiting", req |-> m, result |-> FALSE,
                resp |-> Resp("error", 0, NoKey,
                    "Invalid JSON in proof or public signals")]]
    /\ UNCHANGED <<setupVars, clientVars, authority_number, zk_enabled, today, handshake_numbers,
                   proof_verifications, reader_keys, keys_per_nonce>>

\* handle_client, ZK-Generate: the call of verify_attribute_proof, which
\* logs the result in proof_verifications (INSERT OR REPLACE)
ReceiveZKVerify(c) ==
    /\ conn[c].pc = "awaiting"
    /\ \E m \in ZKMessages :
         /\ m.tag = authority_number
         /\ m.nfields >= 6
         /\ m.json
         /\ LET verification_result ==
                    verify_attribute_proof(m.proof, m.signals)
            IN /\ conn' = [conn EXCEPT ![c] =
                     [pc |-> "verified", req |-> m,
                      result |-> verification_result, resp |-> NoResp]]
               /\ proof_verifications' =
                     IF ReachesVerifier(m.signals)
                     THEN [proof_verifications EXCEPT ![m.reader] =
                              <<m.proof, m.signals, verification_result>>]
                     ELSE proof_verifications
    /\ UNCHANGED <<setupVars, clientVars, authority_number, zk_enabled, today, handshake_numbers,
                   reader_keys, keys_per_nonce>>

\* handle_client lines 140-145: the key fragment, or the error response
RespondZK(c) ==
    /\ conn[c].pc = "verified"
    /\ LET m == conn[c].req
       IN conn' = [conn EXCEPT ![c] =
             [pc |-> "awaiting", req |-> m, result |-> conn[c].result,
              resp |-> IF IssuingVerdict(c)
                       THEN Resp("key", 0,
                                 generate_user_key(authority_number, m.gid,
                                                   m.reader), "")
                       ELSE Resp("error", 0, NoKey,
                                 "Invalid zkSNARK proof")]]
    /\ UNCHANGED <<setupVars, clientVars, authority_number, zk_enabled, today, handshake_numbers,
                   proof_verifications, reader_keys, keys_per_nonce>>

\* generate_number_to_sign and the "Number to sign" response; the row is
\* written with INSERT OR IGNORE
ReceiveStartHandshake(c) ==
    /\ conn[c].pc = "awaiting"
    /\ \E r \in Readers, number_to_sign \in Nonces :
         /\ handshake_numbers' =
               IF handshake_numbers[r] = 0
               THEN [handshake_numbers EXCEPT ![r] = number_to_sign]
               ELSE handshake_numbers
         /\ keys_per_nonce' = [keys_per_nonce EXCEPT ![r] = 0]
         /\ conn' = [conn EXCEPT ![c] =
               [pc |-> "awaiting",
                req |-> Msg(CmdStart, authority_number, "", r, 0, <<>>, <<>>,
                            3, TRUE),
                result |-> FALSE,
                resp |-> Resp("number", number_to_sign, NoKey, "")]]
    /\ UNCHANGED <<setupVars, clientVars, authority_number, zk_enabled, today, proof_verifications,
                   reader_keys>>

\* check_handshake line 65 with the test of the file's address left out
AddressMatches_skipped(reader_address) == TRUE

\* check_handshake line 65: the key file names the requesting reader
AddressMatches(reader_address) ==
    reader_keys[reader_address].address = reader_address

\* check_handshake lines 66-69: hash == hashFromSignature
SignatureMatches(reader_address, signature) ==
    PowMod(signature, reader_keys[reader_address].e,
           reader_keys[reader_address].n)
      = Sha512(handshake_numbers[reader_address])

\* AuthorityServer.check_handshake: True, or False / None
check_handshake(reader_address, signature) ==
    /\ AddressMatches(reader_address)
    /\ SignatureMatches(reader_address, signature)

\* handle_client, "Generate your part of my key" with a stored number: the
\* fragment when check_handshake is true, nothing otherwise; the stored
\* number is left in the table
ReceiveGenerateKey(c) ==
    /\ conn[c].pc = "awaiting"
    /\ \E m \in HandshakeMessages :
         /\ m.tag = authority_number
         /\ handshake_numbers[m.reader] # 0
         /\ LET ok == check_handshake(m.reader, m.signature)
            IN /\ conn' = [conn EXCEPT ![c] =
                     [pc |-> "awaiting", req |-> m, result |-> FALSE,
                      resp |-> IF ok
                               THEN Resp("key", 0,
                                      generate_user_key(authority_number,
                                                        m.gid, m.reader), "")
                               ELSE NoResp]]
               /\ keys_per_nonce' =
                     IF ok /\ keys_per_nonce[m.reader] < 2
                     THEN [keys_per_nonce EXCEPT ![m.reader] = @ + 1]
                     ELSE keys_per_nonce
    /\ UNCHANGED <<setupVars, clientVars, authority_number, zk_enabled, today, handshake_numbers,
                   proof_verifications, reader_keys>>

\* a check_handshake that takes a missing row for a passed check
ReceiveGenerateKeyNoNumber_passing(c) ==
    /\ conn[c].pc = "awaiting"
    /\ \E m \in HandshakeMessages :
         /\ m.tag = authority_number
         /\ handshake_numbers[m.reader] = 0
         /\ conn' = [conn EXCEPT ![c] =
               [pc |-> "awaiting", req |-> m, result |-> FALSE,
                resp |-> Resp("key", 0,
                              generate_user_key(authority_number, m.gid,
                                                m.reader), "")]]
    /\ UNCHANGED <<setupVars, clientVars, authority_number, zk_enabled, today, handshake_numbers,
                   proof_verifications, reader_keys, keys_per_nonce>>

\* handle_client, "Generate your part of my key" without a stored number:
\* result[0] raises IndexError and the handler thread ends
ReceiveGenerateKeyNoNumber(c) ==
    /\ conn[c].pc = "awaiting"
    /\ \E m \in HandshakeMessages :
         /\ m.tag = authority_number
         /\ handshake_numbers[m.reader] = 0
         /\ conn' = [conn EXCEPT ![c] =
               [pc |-> "crashed", req |-> m, result |-> FALSE,
                resp |-> NoResp]]
    /\ UNCHANGED <<setupVars, clientVars, authority_number, zk_enabled, today, handshake_numbers,
                   proof_verifications, reader_keys, keys_per_nonce>>

\* handle_client: a message whose message[0] names another authority matches
\* no branch; nothing is sent
ReceiveOtherTag(c, messages) ==
    /\ conn[c].pc = "awaiting"
    /\ \E m \in messages :
         /\ m.tag # authority_number
         /\ conn' = [conn EXCEPT ![c] =
               [pc |-> "awaiting", req |-> m, result |-> FALSE,
                resp |-> NoResp]]
    /\ UNCHANGED <<setupVars, clientVars, authority_number, zk_enabled, today, handshake_numbers,
                   proof_verifications, reader_keys, keys_per_nonce>>

\* ... on the proof-gated path
ReceiveOtherTagZK(c) == ReceiveOtherTag(c, ZKMessages)

\* ... on the handshake-signature path
ReceiveOtherTagHandshake(c) == ReceiveOtherTag(c, HandshakeMessages)

\* a handler that answers the sentinel with a number to sign before closing
ReceiveDisconnect_answering(c) ==
    /\ conn[c].pc = "awaiting"
    /\ \E r \in Readers, number_to_sign \in Nonces :
         /\ handshake_numbers' = [handshake_numbers EXCEPT ![r] = number_to_sign]
         /\ conn' = [conn EXCEPT ![c] =
               [IdleHandler EXCEPT
                   !.resp = Resp("number", number_to_sign, NoKey, "")]]
    /\ UNCHANGED <<setupVars, clientVars, authority_number, zk_enabled, today,
                   proof_verifications, reader_keys, keys_per_nonce>>

\* handle_client: the disconnect sentinel ends the loop; conn.close()
ReceiveDisconnect(c) ==
    /\ conn[c].pc = "awaiting"
    /\ conn' = [conn EXCEPT ![c] = IdleHandler]
    /\ UNCHANGED <<setupVars, clientVars, authority_number, zk_enabled, today, handshake_numbers,
                   proof_verifications, reader_keys, keys_per_nonce>>

\* the peer closes the stream without sending the sentinel
PeerCloses(c) ==
    /\ conn[c].pc = "awaiting"
    /\ conn' = [conn EXCEPT ![c].pc = "eof"]
    /\ UNCHANGED <<setupVars, clientVars, authority_number, zk_enabled, today, handshake_numbers,
                   proof_verifications, reader_keys, keys_per_nonce>>

\* handle_client lines 114-115 on a closed stream: conn.recv returns the
\* empty string, "if msg_length:" is false, connected stays True and the
\* loop starts over
ReceiveEndOfStream(c) ==
    /\ conn[c].pc = "eof"
    /\ UNCHANGED vars

\* the server's clock moves to the next date
Tick ==
    /\ today < MaxDate
    /\ today' = today + 1
    /\ UNCHANGED <<setupVars, clientVars, authority_number, zk_enabled, handshake_numbers,
                   proof_verifications, reader_keys, keys_per_nonce, conn>>

-----------------------------------------------------------------------------
(* The reader: one run of reader.start for sender_address, with the key     *)
(* servers, the ledger and the content store as its environment.            *)

\* sender_address of the run, and the ids given on the command line
ReaderAddress     == "r1"
ProcessInstanceId == 1
MessageId         == 1
SliceIds          == {1, 2}

\* the rows reader_attributes may hold for the reader after distribution:
\* none, two tuples at one authority, tuples at two authorities
ReaderTables ==
    { {},
      { r.tuple : r \in { x \in CertifierRows : x.address = ReaderAddress } },
      { CertifiedTuple([address |-> ReaderAddress, value |-> "MANUFACTURER",
                        auth |-> 1, secret |-> 11]),
        CertifiedTuple([address |-> ReaderAddress, value |-> "CUSTOMS",
                        auth |-> 2, secret |-> 13]) } }

\* the results "SELECT DISTINCT authority_number" may return: the distinct
\* authorities of the rows, in any order
RECURSIVE Orderings(_)
Orderings(S) ==
    IF S = {} THEN {<<>>}
    ELSE UNION { { <<x>> \o o : o \in Orderings(S \ {x}) } : x \in S }

UserAuthorities(table) == Orderings({ t.auth : t \in table })

\* a Python dict with no key
EmptyDict == <<>>

\* dict.update
DictUpdate(d1, d2) ==
    [k \in DOMAIN d1 \cup DOMAIN d2 |->
        IF k \in DOMAIN d2 THEN d2[k] ELSE d1[k]]

\* merge in which the earlier dictionary keeps its keys
RECURSIVE merge_dicts_first_wins(_)
merge_dicts_first_wins(dict_args) ==
    IF dict_args = <<>> THEN EmptyDict
    ELSE DictUpdate(merge_dicts_first_wins(Tail(dict_args)), Head(dict_args))

\* reader.merge_dicts(*dict_args)
RECURSIVE merge_dicts(_)
merge_dicts(dict_args) ==
    IF dict_args = <<>> THEN EmptyDict
    ELSE DictUpdate(merge_dicts(SubSeq(dict_args, 1, Len(dict_args) - 1)),
                    dict_args[Len(dict_args)])

\* bytesToObject(user_sk1_bytes): the fragment as a dict, label -> key
\* material (which depends on the issuing authority and the global id)
FragmentDict(key) ==
    [k \in key.attrs |-> [auth |-> key.auth, GID |-> key.GID]]

\* a request message that also carries the circuit's private inputs
request_message_with_input(authority, gid, reader_address, in) ==
    Msg(CmdZK, authority, gid, reader_address, 0, generate_proof(in),
        <<in.attr_commitment, in.current_date, in.expected_authority_id,
          in.expected_attr_type, in.attr_secret, in.attr_value>>, 6, TRUE)

\* request_key_with_proof lines 243-244: the message, from the proof and the
\* public inputs the prover returned
request_message(authority, gid, reader_address, in) ==
    Msg(CmdZK, authority, gid, reader_address, 0, generate_proof(in),
        PublicSignals(in), 6, TRUE)

\* what may come back on the connection: a fragment (from any key the
\* server side can build), an error text, or nothing
ReaderResponses ==
    { [kind |-> "key", key |-> generate_user_key(a, g, ReaderAddress)] :
        a \in Authorities, g \in Readers }
    \cup { [kind |-> "error", key |-> NoKey], [kind |-> "none", key |-> NoKey] }

\* attribute labels as they occur in policies and fragments
Label(value, auth) == [value |-> value, auth |-> auth]

\* the slices a record may hold: Slice_id, the policy of its ciphered key
\* (a set of alternatives, each a set of labels), how the symmetric key is
\* kept, whether EncryptedFile decrypts under that key, and the file bytes
SlicePool ==
    { [Slice_id |-> 1,
       policy |-> {{Label("MANUFACTURER", 1)}, {Label("CUSTOMS", 1)}},
       keymode |-> "SymmetricKey", intact |-> TRUE, file |-> "bytesA"],
      [Slice_id |-> 2,
       policy |-> {{Label("MANUFACTURER", 1), Label(PI, 2)}},
       keymode |-> "EncryptedSymmetricKey", intact |-> TRUE,
       file |-> "bytesB"],
      [Slice_id |-> 3,
       policy |-> {{Label("MANUFACTURER", 1)}},
       keymode |-> "SymmetricKey", intact |-> FALSE, file |-> "bytesC"] }

\* the largest number of slices in a record header
MaxSlices == 2

RECURSIVE SeqsUpTo(_, _)
SeqsUpTo(S, n) ==
    IF n = 0 THEN {<<>>}
    ELSE SeqsUpTo(S, n - 1)
         \cup { q \o <<x>> : q \in { y \in SeqsUpTo(S, n - 1) : Len(y) = n - 1 },
                             x \in S }

\* what retrieve_MessageIPFSLink and api.cat may give for the message id:
\* the record (metadata and header) and the sender the ledger recorded
CiphertextRecords ==
    { [metadata |-> [process_instance_id |-> m[1], message_id |-> m[2],
                     sender |-> m[3]],
       header |-> h, ledger_sender |-> "owner"] :
        m \in { <<ProcessInstanceId, MessageId, "owner">>,
                <<ProcessInstanceId + 1, MessageId, "owner">>,
                <<ProcessInstanceId, MessageId + 1, "owner">>,
                <<ProcessInstanceId, MessageId, "mallory">> },
        h \in SeqsUpTo(SlicePool, MaxSlices) }

NoRecord ==
    [metadata |-> [process_instance_id |-> 0, message_id |-> 0, sender |-> ""],
     header |-> <<>>, ledger_sender |-> ""]

NoFile == ""

\* the reader before start() is called
ReaderOff ==
    [pc |-> "off", table |-> {}, date |-> 0, slice_id |-> 0, todo |-> <<>>,
     row |-> <<>>, sent |-> <<>>, responses |-> <<>>, received |-> <<>>,
     merged |-> EmptyDict, record |-> NoRecord, decrypted |-> <<>>,
     output |-> NoFile]

\* start() entered: the store, the clock and the command line are inputs
ReaderInit ==
    \E table \in ReaderTables, date \in CurrentDates, slice_id \in SliceIds :
        rd = [ReaderOff EXCEPT !.pc = "start", !.table = table,
                               !.date = date, !.slice_id = slice_id]

\* start lines 302-312: the authorities the reader holds attributes at
ReaderSelectAuthorities ==
    /\ rd.pc = "start"
    /\ \/ /\ rd.table = {}
          /\ rd' = [rd EXCEPT !.pc = "failed"]
       \/ /\ rd.table # {}
          /\ \E order \in UserAuthorities(rd.table) :
                rd' = [rd EXCEPT !.pc = "loop", !.todo = order]
    /\ UNCHANGED <<setupVars, serverVars, cert, auxVars>>

\* start lines 314-352 and request_key_with_proof up to client.send: the one
\* row "LIMIT 1" returns for the authority, the proof over it, the message
ReaderRequest ==
    /\ rd.pc = "loop"
    /\ \E t \in { x \in rd.table : x.auth = Head(rd.todo) },
          connected \in BOOLEAN :
         LET in == input_data(t, rd.date)
         IN IF ~CircuitSatisfied(in)
            THEN rd' = [rd EXCEPT !.pc = "failed", !.row = <<t>>,
                           !.responses = Append(@, "no proof")]
            ELSE IF ~connected
            THEN rd' = [rd EXCEPT !.pc = "failed", !.row = <<t>>,
                           !.responses = Append(@, "refused")]
            ELSE rd' = [rd EXCEPT
                     !.pc = "waiting", !.row = <<t>>,
                     !.sent = Append(@, request_message(t.auth, ReaderAddress,
                                                       ReaderAddress, in))]
    /\ UNCHANGED <<setupVars, serverVars, cert, auxVars>>

\* a reader that goes on to the next authority after a failed request
request_outcome_lenient(kind) ==
    IF kind = "none" THEN "blocked" ELSE "continue"

\* request_key_with_proof lines 252-266: a response that starts with "Here
\* is my partial key: " is returned, any other response raises; recv without
\* a response does not return
request_outcome(kind) ==
    IF kind = "key" THEN "continue"
    ELSE IF kind = "none" THEN "blocked" ELSE "raise"

\* request_key_with_proof lines 252-266 and start lines 354-357
ReaderReceive ==
    /\ rd.pc = "waiting"
    /\ \E resp \in ReaderResponses :
         LET outcome == request_outcome(resp.kind)
             user_sk1 == IF resp.kind = "key" THEN FragmentDict(resp.key)
                                              ELSE EmptyDict
         IN IF outcome = "continue"
            THEN rd' = [rd EXCEPT
                     !.pc = IF Len(rd.todo) = 1 THEN "collected" ELSE "loop",
                     !.todo = Tail(@),
                     !.responses = Append(@, resp.kind),
                     !.received = Append(@, user_sk1),
                     !.merged = merge_dicts(<<rd.merged, user_sk1>>)]
            ELSE rd' = [rd EXCEPT
                     !.pc = IF outcome = "blocked" THEN "blocked" ELSE "failed",
                     !.responses = Append(@, resp.kind)]
    /\ UNCHANGED <<setupVars, serverVars, cert, auxVars>>

\* the metadata test without the sender
MetadataMatches_nosender(record) ==
    /\ record.metadata.process_instance_id = ProcessInstanceId
    /\ record.metadata.message_id = MessageId

\* start lines 384-386
MetadataMatches(record) ==
    /\ record.metadata.process_instance_id = ProcessInstanceId
    /\ record.metadata.message_id = MessageId
    /\ record.metadata.sender = record.ledger_sender

\* a selection that takes the first slice whatever its id
SelectSlices_first(header, slice_id) ==
    IF Len(header) >= 1 THEN <<1>> ELSE <<>>

\* start lines 388-403: the positions in the header on which
\* actual_decryption is called
SelectSlices(header, slice_id) ==
    IF Len(header) = 1 THEN <<1>>
    ELSE IF Len(header) > 1
    THEN LET hits == { i \in 1..Len(header) : header[i].Slice_id = slice_id }
         IN IF hits = {} THEN <<>>
            ELSE <<CHOOSE i \in hits : \A j \in hits : i <= j>>
    ELSE <<>>

\* maabe.decrypt: succeeds when the labels of the key satisfy the policy
maabe_decrypt(user_sk, policy) ==
    \E alternative \in policy : alternative \subseteq DOMAIN user_sk.keys

\* a decryption that writes the file without the policy-gated step
actual_decryption_unguarded(remaining, user_sk) ==
    [ok |-> remaining.intact,
     output |-> IF remaining.intact THEN remaining.file ELSE NoFile]

\* reader.actual_decryption: maabe.decrypt raises when the policy is not
\* satisfied; the file is written after the payload decrypted
actual_decryption(remaining, user_sk) ==
    LET decrypted == maabe_decrypt(user_sk, remaining.policy)
        ok == decrypted /\ remaining.intact
    IN [ok |-> ok, output |-> IF ok THEN remaining.file ELSE NoFile]

\* start lines 360-413: fetch the record, verify the metadata, select the
\* slice, decrypt it
ReaderDecrypt ==
    /\ rd.pc = "collected"
    /\ \E record \in CiphertextRecords :
         LET user_sk == [GID |-> ReaderAddress, keys |-> rd.merged]
             chosen  == IF MetadataMatches(record)
                        THEN SelectSlices(record.header, rd.slice_id)
                        ELSE <<>>
             result  == IF chosen = <<>> THEN [ok |-> FALSE, output |-> NoFile]
                        ELSE actual_decryption(record.header[chosen[1]],
                                               user_sk)
         IN rd' = [rd EXCEPT
                  !.pc = IF result.ok THEN "done" ELSE "failed",
                  !.record = record,
                  !.decrypted = chosen,
                  !.output = result.output]
    /\ UNCHANGED <<setupVars, serverVars, cert, auxVars>>

ReaderNext ==
    \/ ReaderSelectAuthorities
    \/ ReaderRequest
    \/ ReaderReceive
    \/ ReaderDecrypt

\* the directory in which every reader published its own key file
HonestDirectory == [r \in Readers |-> KeyFile(r, r)]

-----------------------------------------------------------------------------
(* The certifier: attribute_certifier.generate_attributes, run once per     *)
(* invocation of the script, possibly several times for a process instance. *)

\* the largest number of runs of the certifier
MaxCertRuns == 2

\* roles.json files: role address -> the attribute labels listed for it
RolesFiles ==
    { ("r1" :> <<Label("MANUFACTURER", 1), Label("ROLE_QA", 1)>>)
         @@ ("r2" :> <<Label("CUSTOMS", 2)>>),
      ("r1" :> <<Label("MANUFACTURER", 1), Label("CUSTOMS", 1)>>),
      ("r2" :> <<Label("CUSTOMS", 2)>>) }

\* the values random.randint(1, 2**64) may return for attr_secret
SecretPool == {11, 12}

\* the values random.randint(10**19, 2**64 - 1) may return for a new id
NewProcessIds == {ProcessInstanceId, ProcessInstanceId + 1}

\* PROCESS_INSTANCE_ID is not set in .env
NoProcessId == 0

\* one secret drawn for each attribute of each role, in loop order
SecretDraws(roles) ==
    { draw \in [DOMAIN roles -> UNION { [1..n -> SecretPool] : n \in 0..2 }] :
        \A address \in DOMAIN roles :
            DOMAIN draw[address] = 1..Len(roles[address]) }

\* lines 79-92: the entry written for one attribute,
\* attribute_commitments[address][auth_id][attr_type] = {...}
AttrData(attr, attr_secret) ==
    LET t == CertifiedTuple([value |-> attr.value, auth |-> attr.auth,
                             secret |-> attr_secret])
    IN (<<attr.auth, t.type>> :>
           [commitment |-> Commitment(t), secret |-> attr_secret,
            value |-> attr.value, expiry |-> t.expiry])

\* lines 59-92 for one role: the dictionary after the first n attributes,
\* each assignment replacing what the key held
RECURSIVE BuildCommitments(_, _, _)
BuildCommitments(attributes, secrets, n) ==
    IF n = 0 THEN EmptyDict
    ELSE DictUpdate(BuildCommitments(attributes, secrets, n - 1),
                    AttrData(attributes[n], secrets[n]))

\* line 55: dict_users[address]
UserLabels(attributes) ==
    { Label(PI, a) : a \in Authorities }
    \cup { attributes[i] : i \in 1..Len(attributes) }

\* lines 95-100: file_to_str, the text of the bundle
BundleText(process_instance_id, users) ==
    [process_instance_id |-> process_instance_id, dict_users |-> users]

\* a ledger call that passes the secret along with the commitment
LedgerArguments_withSecret(process_instance_id, hash_file, address, key, attr_data) ==
    [process_instance_id |-> process_instance_id, ipfs_hash |-> hash_file,
     gid |-> address, auth_id |-> key[1], attr_type |-> key[2],
     commitment |-> ToDigits(attr_data.secret)]

\* lines 110-124 and block_int.send_users_attributes_with_commitment: the
\* arguments of contract.setUserAttributes
LedgerArguments(process_instance_id, hash_file, address, key, attr_data) ==
    [process_instance_id |-> process_instance_id, ipfs_hash |-> hash_file,
     gid |-> address, auth_id |-> key[1], attr_type |-> key[2],
     commitment |-> attr_data.commitment]

\* lines 157-174: the rows written for the entries of the dictionary, by
\* the table's key (process_instance, address, auth_id, attr_type)
StoreRows(process_instance_id, commitments) ==
    LET keys == UNION { { <<process_instance_id, address, key[1], key[2]>> :
                            key \in DOMAIN commitments[address] } :
                        address \in DOMAIN commitments }
    IN [x \in keys |-> commitments[x[2]][<<x[3], x[4]>>]]

\* "INSERT OR REPLACE INTO attribute_commitments" for every entry
InsertOrReplaceAll(table, process_instance_id, commitments) ==
    DictUpdate(table, StoreRows(process_instance_id, commitments))

\* "INSERT OR IGNORE INTO user_attributes": the row is written when the
\* process instance has none (the table's schema is outside the repository)
InsertOrIgnoreRow(table, row) ==
    IF \E x \in table : x.process_instance = row.process_instance
    THEN table ELSE table \cup {row}

\* the certifier before its first run
CertifierOff ==
    [pc |-> "off", runs |-> 0, env |-> NoProcessId, process_instance_id |-> 0,
     roles |-> EmptyDict, dict_users |-> EmptyDict,
     attribute_commitments |-> EmptyDict, hash_file |-> <<>>,
     content_store |-> {}, ledger |-> {}, user_attributes |-> {},
     store |-> EmptyDict]

\* python attribute_certifier.py -i roles.json is started
CertifierInit ==
    \E env \in {NoProcessId, ProcessInstanceId} :
        cert = [CertifierOff EXCEPT !.pc = "idle", !.env = env]

\* lines 29-92: the process instance id is read from .env or drawn and
\* stored there; the roles are loaded, a secret is drawn for each attribute
\* and the two dictionaries are built
CertifierBuild ==
    /\ cert.pc = "idle"
    /\ cert.runs < MaxCertRuns
    /\ \E roles \in RolesFiles :
       \E process_instance_id \in
             (IF cert.env # NoProcessId THEN {cert.env} ELSE NewProcessIds) :
       \E draw \in SecretDraws(roles) :
          cert' = [cert EXCEPT
              !.pc = "built",
              !.runs = @ + 1,
              !.env = process_instance_id,
              !.process_instance_id = process_instance_id,
              !.roles = roles,
              !.dict_users =
                  [address \in DOMAIN roles |-> UserLabels(roles[address])],
              !.attribute_commitments =
                  [address \in DOMAIN roles |->
                      BuildCommitments(roles[address], draw[address],
                                       Len(roles[address]))]]
    /\ UNCHANGED <<setupVars, serverVars, rd, auxVars>>

\* lines 94-124: the bundle is added to the content store and one
\* setUserAttributes transaction is sent for each entry of the dictionary
CertifierPublish ==
    /\ cert.pc = "built"
    /\ LET file_to_str == BundleText(cert.process_instance_id, cert.dict_users)
           hash_file == add_json(file_to_str)
       IN cert' = [cert EXCEPT
              !.pc = "published",
              !.hash_file = hash_file,
              !.content_store = @ \cup {file_to_str},
              !.ledger = @ \cup
                  UNION { { LedgerArguments(cert.process_instance_id,
                               hash_file, address, key,
                               cert.attribute_commitments[address][key]) :
                              key \in DOMAIN cert.attribute_commitments[address] } :
                          address \in DOMAIN cert.attribute_commitments }]
    /\ UNCHANGED <<setupVars, serverVars, rd, auxVars>>

\* lines 126-192: the bundle and the entries are saved in the private store
\* and the script ends
CertifierPersist ==
    /\ cert.pc = "published"
    /\ cert' = [cert EXCEPT
          !.pc = "idle",
          !.user_attributes =
              InsertOrIgnoreRow(@,
                  [process_instance |-> cert.process_instance_id,
                   ipfs_file_link_hash |-> cert.hash_file,
                   file |-> BundleText(cert.process_instance_id,
                                       cert.dict_users)]),
          !.store = InsertOrReplaceAll(@, cert.process_instance_id,
                                       cert.attribute_commitments)]
    /\ UNCHANGED <<setupVars, serverVars, rd, auxVars>>

CertifierNext ==
    \/ CertifierBuild
    \/ CertifierPublish
    \/ CertifierPersist

-----------------------------------------------------------------------------
(* The commitment function, called by the certifier and by the reader.      *)

\* the largest number of calls followed
MaxCalls == 2

\* a corpus of attribute tuples
Corpus ==
    { [secret |-> secret, value |-> value, auth |-> auth,
       type |-> AttrTypeOf(value), expiry |-> CertDate + ExpiryPeriod] :
        secret \in {11, 972},
        value \in {"MANUFACTURER", "MANUFACTURING", "ROLE_QA"},
        auth \in Authorities }

\* a computation that passes the type before the authority
reader_commitment_swapped(t) ==
    compute_pedersen_hash(<<ToDigits(t.secret), AttrValueNumeric(t.value),
                            ToDigits(t.type), ToDigits(t.auth),
                            ToDigits(t.expiry)>>)

\* reader.request_key_with_proof lines 181-194: the commitment the reader
\* computes from a row of reader_attributes
reader_commitment(t) ==
    LET chars == Ord(t.value)
        attr_value_numeric ==
            SubSeq(chars, 1, IF Len(chars) < 8 THEN Len(chars) ELSE 8)
    IN compute_pedersen_hash(<<ToDigits(t.secret), attr_value_numeric,
                               ToDigits(t.auth), ToDigits(t.type),
                               ToDigits(t.expiry)>>)

\* no call was made
CodecOff == <<>>

CodecInit == codec = CodecOff

\* attribute_certifier.generate_attributes lines 72-80 on one tuple
ComputeCertifier ==
    /\ Len(codec) < MaxCalls
    /\ \E t \in Corpus :
         codec' = Append(codec, [component |-> "certifier", tuple |-> t,
                                 commitment |-> Commitment(t)])
    /\ UNCHANGED <<setupVars, serverVars, rd, cert, txn, rp, reader_attributes, enc>>

\* reader.request_key_with_proof lines 181-194 on one tuple
ComputeReader ==
    /\ Len(codec) < MaxCalls
    /\ \E t \in Corpus :
         codec' = Append(codec, [component |-> "reader", tuple |-> t,
                                 commitment |-> reader_commitment(t)])
    /\ UNCHANGED <<setupVars, serverVars, rd, cert, txn, rp, reader_attributes, enc>>

CodecNext ==
    \/ ComputeCertifier
    \/ ComputeReader

-----------------------------------------------------------------------------
(* block_int.__send_txt__: sending one signed transaction.                  *)

\* the largest number of attempts followed
MaxAttempts == 3

\* the functions of block_int that sign a transaction and pass it on
RawTransactions ==
    { "activate_contract", "send_authority_names", "sendHashedElements",
      "sendElements", "send_parameters_link", "send_publicKey_link",
      "send_MessageIPFSLink", "send_users_attributes",
      "send_publicKey_readers", "send_users_attributes_with_commitment" }

\* what the operator may type at the prompt
Answers == {"y", "n", ""}

\* __send_txt__ is not running
TxnOff == [pc |-> "off", raw |-> "", attempts |-> 0, prompts |-> 0]

\* __send_txt__(signed_transaction_type) is called
TxnInit ==
    \E raw \in RawTransactions :
        txn = [TxnOff EXCEPT !.pc = "sending", !.raw = raw]

\* lines 420-422: web3.eth.send_raw_transaction returns the hash
SendRawTransaction ==
    /\ txn.pc = "sending"
    /\ txn.attempts < MaxAttempts
    /\ txn' = [txn EXCEPT !.pc = "returned", !.attempts = @ + 1]
    /\ UNCHANGED <<setupVars, serverVars, rd, cert, codec, rp, reader_attributes, enc>>

\* lines 423-425: web3.eth.send_raw_transaction raises; the exception is
\* printed and the operator is asked
SendRawTransactionFails ==
    /\ txn.pc = "sending"
    /\ txn.attempts < MaxAttempts
    /\ txn' = [txn EXCEPT !.pc = "asking", !.attempts = @ + 1,
                          !.prompts = @ + 1]
    /\ UNCHANGED <<setupVars, serverVars, rd, cert, codec, rp, reader_attributes, enc>>

\* lines 425-428: the answer 'y' calls __send_txt__ again, any other answer
\* raises Exception("Transaction failed")
OperatorAnswers ==
    /\ txn.pc = "asking"
    /\ \E answer \in Answers :
         txn' = [txn EXCEPT !.pc = IF answer = "y" THEN "sending"
                                                 ELSE "raised"]
    /\ UNCHANGED <<setupVars, serverVars, rd, cert, codec, rp, reader_attributes, enc>>

TxnNext ==
    \/ SendRawTransaction
    \/ SendRawTransactionFails
    \/ OperatorAnswers

-----------------------------------------------------------------------------
(* reader.generate_public_parameters and data_owner.generate_pp_pk: a       *)
(* client fetches the public parameters the authorities published.          *)

\* what the ledger may return as an authority's names link
NamesLinks == {"QmNames", "QmNamesB"}

\* what the ledger may return as an authority's parameters link; "" when
\* the authority has published none
ParameterLinks == {"", "QmParamsA", "QmParamsB"}

\* what the ledger may return as an authority's public-key link
PublicKeyLinks == {"", "QmKey"}

\* api.cat(link): the content stored under a link
Cat(link) == <<"content", link>>

\* no client is retrieving the public parameters
RetrievalOff ==
    [pc |-> "off", component |-> "", names |-> <<>>, links |-> <<>>,
     keys |-> <<>>, check_authorities |-> <<>>, check_parameters |-> <<>>,
     authorities_public_keys |-> {}, public_parameters |-> Void]

\* the client calls the function; the ledger's entries are what they are
RetrievalInit ==
    \E component \in {"reader", "data_owner"} :
    \E names \in [Authorities -> NamesLinks] :
    \E links \in [Authorities -> ParameterLinks] :
    \E keys \in [Authorities -> PublicKeyLinks] :
        /\ component = "reader" => \A a \in Authorities : keys[a] = ""
        /\ rp = [RetrievalOff EXCEPT !.pc = "loop", !.component = component,
                                     !.names = names, !.links = links,
                                     !.keys = keys]

\* reader.py lines 47-50, data_owner.py lines 33-41: one iteration of the
\* loop over the authorities; the data owner also fetches and stores the
\* authority's public key, and api.cat of an empty link raises
RetrieveData ==
    /\ rp.pc = "loop"
    /\ LET a == Len(rp.check_authorities) + 1
           next == IF a = NumAuthorities THEN "check" ELSE "loop"
       IN IF rp.component = "data_owner" /\ rp.keys[a] = ""
          THEN rp' = [rp EXCEPT !.pc = "raised"]
          ELSE rp' = [rp EXCEPT
                  !.pc = next,
                  !.check_authorities = Append(@, rp.names[a]),
                  !.check_parameters = Append(@, rp.links[a]),
                  !.authorities_public_keys =
                      IF rp.component = "data_owner"
                      THEN @ \cup {<<a, rp.keys[a], Cat(rp.keys[a])>>}
                      ELSE @]
    /\ UNCHANGED <<setupVars, serverVars, rd, cert, codec, txn, reader_attributes, enc>>

\* reader.py line 53, data_owner.py line 42:
\* len(set(check_authorities)) == 1 and check_parameters
Consistent(check_authorities, check_parameters) ==
    /\ Cardinality({ check_authorities[i] :
                       i \in 1..Len(check_authorities) }) = 1
    /\ check_parameters # <<>>

\* reader.py lines 53-62, data_owner.py lines 42-49: the first link's
\* content is stored (INSERT OR IGNORE); otherwise the reader exits with
\* status 1 and the data owner returns
StoreParameters ==
    /\ rp.pc = "check"
    /\ IF Consistent(rp.check_authorities, rp.check_parameters)
       THEN LET params_link == rp.check_parameters[1]
            IN IF params_link = ""
               THEN rp' = [rp EXCEPT !.pc = "raised"]
               ELSE rp' = [rp EXCEPT
                       !.pc = "stored",
                       !.public_parameters =
                           IF @ = Void THEN <<params_link, Cat(params_link)>>
                                       ELSE @]
       ELSE rp' = [rp EXCEPT
               !.pc = IF rp.component = "reader" THEN "exited"
                                                  ELSE "returned"]
    /\ UNCHANGED <<setupVars, serverVars, rd, cert, codec, txn, reader_attributes, enc>>

RetrievalNext ==
    \/ RetrieveData
    \/ StoreParameters


-----------------------------------------------------------------------------
(* distribute_attributes.py: the certifier's rows are copied into the       *)
(* readers' database, from which reader.start takes the tuple it proves.    *)

\* str(n) of a non-negative integer: its decimal digits
RECURSIVE Str(_)
Str(n) == IF n < 10 THEN <<n>> ELSE Append(Str(n \div 10), n % 10)

\* int(s) of a decimal text
RECURSIVE ParseInt(_)
ParseInt(s) ==
    IF Len(s) = 1 THEN s[1]
    ELSE 10 * ParseInt(SubSeq(s, 1, Len(s) - 1)) + s[Len(s)]

\* a copy that binds the selected columns to the wrong names
DistributedRow_misbound(attr_secret, attr_value, expiry_date) ==
    [attr_secret |-> Str(expiry_date), attr_value |-> attr_value,
     expiry_date |-> Str(attr_secret)]

\* lines 72-79: the values inserted for one selected row; secret and expiry
\* are TEXT columns (attribute_certifier.py:168-170 stores str(...))
DistributedRow(attr_secret, attr_value, expiry_date) ==
    [attr_secret |-> Str(attr_secret), attr_value |-> attr_value,
     expiry_date |-> Str(expiry_date)]

\* lines 33-39: the rows of attribute_commitments of one process instance
SelectedAttributes(process_instance_id) ==
    { k \in DOMAIN cert.store : k[1] = process_instance_id }

\* distribute_attributes(): every selected row is written with INSERT OR
\* REPLACE under (process_instance, reader_address, authority_number,
\* attr_type); with no row selected the script ends without writing
distribute_attributes ==
    /\ cert.env # NoProcessId
    /\ LET attributes == SelectedAttributes(cert.env)
       IN /\ attributes # {}
          /\ reader_attributes' =
                DictUpdate(reader_attributes,
                    [k \in attributes |->
                        DistributedRow(cert.store[k].secret,
                                       cert.store[k].value,
                                       cert.store[k].expiry)])
    /\ UNCHANGED <<setupVars, serverVars, rd, cert, codec, txn, rp, enc>>

\* reader.start lines 320-339: the tuple read back from a row
ReaderTuple(k) ==
    [secret |-> ParseInt(reader_attributes[k].attr_secret),
     value |-> reader_attributes[k].attr_value,
     auth |-> k[3], type |-> k[4],
     expiry |-> ParseInt(reader_attributes[k].expiry_date)]

-----------------------------------------------------------------------------
(* data_owner.cipher_data: the record placed in the content store, and      *)
(* reader.actual_decryption on one of its slices.                           *)

\* the values groupObj.random(GT) may return
GTElems == {2, 4}

\* the values secrets.token_hex(32) may return
TokenHex == {<<"hex", 1>>, <<"hex", 2>>}

\* the input files with their Base64 contents, and the policies file
InputFiles == ("f1" :> "bytesA") @@ ("f2" :> "bytesB")
InputPolicies ==
    { ("f1" :> {{Label("MANUFACTURER", 1)}, {Label("CUSTOMS", 1)}}),
      ("f1" :> {{Label("MANUFACTURER", 1)}})
         @@ ("f2" :> {{Label("CUSTOMS", 2)}}) }

\* the value cryptocode.decrypt returns for a wrong password
DecryptFailed == "False"

\* cryptocode.encrypt / cryptocode.decrypt: password-based encryption
cryptocode_encrypt(message, password) ==
    [message |-> message, password |-> password]
cryptocode_decrypt(enc_text, password) ==
    IF enc_text.password = password THEN enc_text.message ELSE DecryptFailed

\* maabe.encrypt(public_parameters, pk, message, policy)
maabe_encrypt(message, policy) == [policy |-> policy, message |-> message]

\* hashlib.sha256(v2_serialized).hexdigest() and str(v2_serialized)
Sha256Hex(v2_serialized) == <<"sha256", v2_serialized>>
StrBytes(v2_serialized)  == <<"str", v2_serialized>>

\* lines 147-171: dict_pol of one file
dict_pol(file_name, policy, dummy_element, symmetric_key) ==
    [CipheredKey |-> maabe_encrypt(dummy_element, policy),
     FileName |-> file_name,
     EncryptedFile |-> cryptocode_encrypt(InputFiles[file_name], symmetric_key),
     SymmetricKey |-> symmetric_key]

\* lines 174-181: the slice id is added when there are several files
WithSliceId(d, n, index) ==
    IF n > 1 THEN d @@ ("Slice_id" :> index) ELSE d

\* reader.actual_decryption lines 133-152: the symmetric key the reader
\* decrypts the payload with
reader_symmetric_key(remaining, v2_serialized) ==
    IF "SymmetricKey" \in DOMAIN remaining
    THEN remaining.SymmetricKey
    ELSE IF "EncryptedSymmetricKey" \in DOMAIN remaining
    THEN cryptocode_decrypt(remaining.EncryptedSymmetricKey,
                            StrBytes(v2_serialized))
    ELSE Sha256Hex(v2_serialized)

\* no message was made
CipherOff ==
    [pc |-> "off", keys |-> <<>>, json_total |-> NoRecord, slice |-> 0,
     v2 |-> 0, symmetric_key |-> <<>>, decryptedFile |-> NoFile]

CipherInit == enc = CipherOff

\* cipher_data: every file of the policies file is encrypted under a fresh
\* symmetric key, the header and the metadata are added to the content store
cipher_data ==
    /\ enc.pc = "off"
    /\ \E policies \in InputPolicies :
       \E names \in Orderings(DOMAIN policies) :
       \E dummy \in [1..Len(names) -> GTElems] :
       \E symmetric \in [1..Len(names) -> TokenHex] :
          LET header ==
                [i \in 1..Len(names) |->
                    WithSliceId(dict_pol(names[i], policies[names[i]],
                                         dummy[i], symmetric[i]),
                                Len(names), i)]
          IN enc' = [enc EXCEPT
                 !.pc = "published",
                 !.keys = symmetric,
                 !.json_total =
                     [metadata |-> [process_instance_id |-> ProcessInstanceId,
                                    message_id |-> MessageId,
                                    sender |-> "owner"],
                      header |-> header, ledger_sender |-> "owner"]]
    /\ UNCHANGED <<setupVars, serverVars, rd, cert, codec, txn, rp, reader_attributes>>

\* the aggregated keys a reader may hold
UserKeys ==
    { [GID |-> ReaderAddress, keys |-> FragmentDict(generate_user_key(a, ReaderAddress, r))] :
        a \in Authorities, r \in Readers }

\* reader.actual_decryption on one slice of the record: maabe.decrypt
\* raises when the policy is not satisfied, else the payload is decrypted
\* with the symmetric key
DecryptSlice ==
    /\ enc.pc = "published"
    /\ \E i \in DOMAIN enc.json_total.header, user_sk \in UserKeys :
         LET remaining == enc.json_total.header[i]
             ct == remaining.CipheredKey
         IN IF maabe_decrypt(user_sk, ct.policy)
            THEN LET v2 == ct.message
                     symmetric_key == reader_symmetric_key(remaining, v2)
                 IN enc' = [enc EXCEPT
                        !.pc = "read", !.slice = i, !.v2 = v2,
                        !.symmetric_key = symmetric_key,
                        !.decryptedFile =
                            cryptocode_decrypt(remaining.EncryptedFile,
                                               symmetric_key)]
            ELSE enc' = [enc EXCEPT !.pc = "raised", !.slice = i]
    /\ UNCHANGED <<setupVars, serverVars, rd, cert, codec, txn, rp, reader_attributes>>

CipherNext ==
    \/ cipher_data
    \/ DecryptSlice

\* the helpers run on their own are not running
AuxOff ==
    /\ codec = CodecOff /\ txn = TxnOff /\ rp = RetrievalOff
    /\ reader_attributes = EmptyDict /\ enc = CipherOff

\* the reader and the certifier are not running
ClientsOff == rd = ReaderOff /\ cert = CertifierOff /\ AuxOff

Init ==
    /\ SetupDone /\ ServerInit /\ reader_keys = HonestDirectory
    /\ ClientsOff

Next ==
    \/ Tick
    \/ \E c \in Conns :
            \/ Accept(c)
            \/ ReceiveZKShort(c)
            \/ ReceiveZKBadJson(c)
            \/ ReceiveZKVerify(c)
            \/ RespondZK(c)
            \/ ReceiveOtherTagZK(c)
            \/ ReceiveDisconnect(c)

Spec == Init /\ [][Next]_vars

\* the handshake-signature path of the same server: the two paths share no
\* table, so each is explored with the requests of its own path
HandshakeInit == SetupDone /\ ServerInit /\ zk_enabled /\ ClientsOff

HandshakeNext ==
    \E c \in Conns :
         \/ Accept(c)
         \/ ReceiveStartHandshake(c)
         \/ ReceiveGenerateKey(c)
         \/ ReceiveGenerateKeyNoNumber(c)
         \/ ReceiveOtherTagHandshake(c)
         \/ ReceiveDisconnect(c)

HandshakeSpec == HandshakeInit /\ [][HandshakeNext]_vars

\* handlers whose clients say goodbye or simply go away; the scheduler runs
\* every handler thread that can take a step
PeerNext ==
    \E c \in Conns :
         \/ Accept(c)
         \/ ReceiveStartHandshake(c)
         \/ ReceiveDisconnect(c)
         \/ PeerCloses(c)
         \/ ReceiveEndOfStream(c)

PeerSpec ==
    /\ HandshakeInit /\ [][PeerNext]_vars
    /\ \A c \in Conns : WF_vars(ReceiveEndOfStream(c))

\* the parameter agreement, run while the server of authority 1 is idle
SetupSpecInit ==
    /\ SetupInit /\ ServerInit
    /\ authority_number = 1 /\ zk_enabled /\ reader_keys = HonestDirectory
    /\ ClientsOff

SetupSpec == SetupSpecInit /\ [][SetupNext]_vars

\* the parameter agreement with the wait loop of each running authority
\* polling again every five seconds (main lines 170-173)
SetupLiveSpec ==
    /\ SetupSpecInit /\ [][SetupNext]_vars
    /\ \A a \in Authorities : WF_vars(generate_public_parameters(a))

\* the reader's run, beside an idle server of authority 1
ReaderSpecInit ==
    /\ SetupDone /\ ServerInit
    /\ authority_number = 1 /\ zk_enabled /\ reader_keys = HonestDirectory
    /\ ReaderInit /\ cert = CertifierOff /\ AuxOff

ReaderSpec == ReaderSpecInit /\ [][ReaderNext]_vars

\* the certifier's runs, beside an idle server of authority 1
CertifierSpecInit ==
    /\ SetupDone /\ ServerInit
    /\ authority_number = 1 /\ zk_enabled /\ reader_keys = HonestDirectory
    /\ rd = ReaderOff /\ CertifierInit /\ AuxOff

CertifierSpec == CertifierSpecInit /\ [][CertifierNext]_vars

\* the certifier and the distribution script, run in any order
DistributionNext ==
    \/ CertifierNext
    \/ distribute_attributes

DistributionSpec == CertifierSpecInit /\ [][DistributionNext]_vars

\* an idle server of authority 1 after the parameter agreement, beside
\* which the single functions are run
ServerIdle ==
    /\ SetupDone /\ ServerInit
    /\ authority_number = 1 /\ zk_enabled /\ reader_keys = HonestDirectory

\* a message of the data owner and its decryption by a reader
CipherSpecInit ==
    /\ ServerIdle
    /\ rd = ReaderOff /\ cert = CertifierOff
    /\ codec = CodecOff /\ txn = TxnOff /\ rp = RetrievalOff
    /\ reader_attributes = EmptyDict /\ CipherInit

CipherSpec == CipherSpecInit /\ [][CipherNext]_vars

\* calls of the commitment function
CodecSpecInit ==
    /\ ServerIdle /\ rd = ReaderOff /\ cert = CertifierOff
    /\ CodecInit /\ txn = TxnOff /\ rp = RetrievalOff
    /\ reader_attributes = EmptyDict /\ enc = CipherOff

CodecSpec == CodecSpecInit /\ [][CodecNext]_vars

\* one call of __send_txt__
TxnSpecInit ==
    /\ ServerIdle /\ rd = ReaderOff /\ cert = CertifierOff
    /\ codec = CodecOff /\ TxnInit /\ rp = RetrievalOff
    /\ reader_attributes = EmptyDict /\ enc = CipherOff

TxnSpec == TxnSpecInit /\ [][TxnNext]_vars

\* one retrieval of the public parameters by the reader or the data owner
RetrievalSpecInit ==
    /\ ServerIdle /\ rd = ReaderOff /\ cert = CertifierOff
    /\ codec = CodecOff /\ txn = TxnOff /\ RetrievalInit
    /\ reader_attributes = EmptyDict /\ enc = CipherOff

RetrievalSpec == RetrievalSpecInit /\ [][RetrievalNext]_vars

-----------------------------------------------------------------------------
(* Properties of the proof-gated path (Spec).                               *)

\* the last response on connection c is a fragment answering a ZK-Generate
KeyIssuedZK(c) ==
    conn[c].req.cmd = CmdZK /\ conn[c].resp.kind = "key"

\* the last response on connection c is a fragment answering a
\* "Generate your part of my key"
KeyIssuedHandshake(c) ==
    conn[c].req.cmd = CmdGenerate /\ conn[c].resp.kind = "key"

\* C1: on the proof-gated path a fragment is issued for a reader only if the
\* commitment in the request's public signals is the one the certifier
\* published in the registry for that (reader, authorityId, attrType).
C1_FragmentOnlyForPublishedCommitment ==
    \A c \in Conns :
        KeyIssuedZK(c) =>
            LET m == conn[c].req
            IN m.signals[1] \in
                 get_attribute_commitment(m.reader, m.signals[3], m.signals[4])

\* C2: a server configured as authority K issues no fragment for a
\* ZK-Generate request whose authorityId signal differs from K, nor for one
\* whose command tag names another authority.
C2_NoFragmentForOtherAuthority ==
    \A c \in Conns :
        KeyIssuedZK(c) =>
            /\ conn[c].req.tag = authority_number
            /\ AuthorityIdOf(conn[c].req.signals) = authority_number

\* a request carrying an own-tag proof that the verifier alone accepts but
\* whose authorityId differs from K was answered with an error, and a request
\* tagged for another authority, carrying a proof for this one, got nothing
C2_Witness ==
    \E c1, c2 \in Conns :
        /\ conn[c1].req.cmd = CmdZK
        /\ conn[c1].req.tag = authority_number
        /\ conn[c1].req.nfields >= 6 /\ conn[c1].req.json
        /\ verify_proof_offchain(conn[c1].req.proof, conn[c1].req.signals)
        /\ AuthorityIdOf(conn[c1].req.signals) # authority_number
        /\ conn[c1].resp.kind = "error"
        /\ conn[c2].req.cmd = CmdZK
        /\ conn[c2].req.tag # authority_number
        /\ conn[c2].req.nfields >= 6 /\ conn[c2].req.json
        /\ verify_proof_offchain(conn[c2].req.proof, conn[c2].req.signals)
        /\ AuthorityIdOf(conn[c2].req.signals) = authority_number
        /\ conn[c2].pc = "awaiting"
        /\ conn[c2].resp.kind = "none"

\* C3: whatever the interleaving of the connections, a fragment sent on the
\* proof-gated path answers a request that the same handler verified with a
\* true result, and an own-tag request with an invalid proof, unparseable
\* JSON or fewer than six fields is answered with an error.
C3_KeyOnlyAfterOwnVerification ==
    \A c \in Conns :
        LET m == conn[c].req IN
        /\ KeyIssuedZK(c) =>
              /\ m.nfields >= 6
              /\ m.json
              /\ conn[c].result
              /\ zk_enabled
              /\ verify_proof_offchain(m.proof, m.signals)
        /\ ( /\ conn[c].pc = "awaiting"
             /\ m.cmd = CmdZK
             /\ m.tag = authority_number
             /\ \/ m.nfields < 6
                \/ ~m.json
                \/ ~verify_proof_offchain(m.proof, m.signals) )
           => conn[c].resp.kind = "error"

\* two handlers served the same reader: the one whose proof was invalid sent
\* an error although the verification log row of the reader, written by the
\* other handler, holds a true result
C3_Witness ==
    \E c1, c2 \in Conns :
        /\ c1 # c2
        /\ conn[c1].req.reader = conn[c2].req.reader
        /\ conn[c1].req.cmd = CmdZK
        /\ conn[c1].req.nfields >= 6 /\ conn[c1].req.json
        /\ ProofIsForThisAuthority(conn[c1].req.signals)
        /\ ~verify_proof_offchain(conn[c1].req.proof, conn[c1].req.signals)
        /\ conn[c1].resp.kind = "error"
        /\ KeyIssuedZK(c2)
        /\ proof_verifications[conn[c1].req.reader] # Void
        /\ proof_verifications[conn[c1].req.reader][3]

\* C4: a fragment issued on the proof-gated path holds key material for the
\* single (authorityId, attrType) pair of the verified public signals and for
\* no other attribute of the reader.
C4_FragmentScopedToProvenPair ==
    \A c \in Conns :
        KeyIssuedZK(c) =>
            \A k \in conn[c].resp.key.attrs :
                k.value # PI =>
                    /\ k.auth = conn[c].req.signals[3]
                    /\ AttrTypeOf(k.value) = conn[c].req.signals[4]

\* C5: no fragment is issued on the proof-gated path for a certified
\* attribute whose expiry is earlier than the date at which the server
\* answers, whatever current_date the requester put into the signals.
C5_NoFragmentForExpiredAttribute ==
    \A c \in Conns :
        KeyIssuedZK(c) =>
            \A row \in CertifierRows :
                ( /\ row.address = conn[c].req.reader
                  /\ row.commitment = conn[c].req.signals[1] )
                => row.tuple.expiry >= conn[c].resp.date

-----------------------------------------------------------------------------
(* Properties of the parameter agreement (SetupSpec).                       *)

\* C6: parameters are aggregated and published only if every authority's
\* revealed elements hash to the commitment pair read from the ledger.
C6_AggregatesOnlyMatchingCommitments ==
    \A a \in Authorities :
        lastAgg[a] # Void =>
            \A i \in Authorities :
                commit(lastAgg[a][3][i], lastAgg[a][4][i])
                  = <<lastAgg[a][1][i], lastAgg[a][2][i]>>

C8_CommitBeforeReveal ==
    \A a \in Authorities :
        /\ element[a] # Void => elementHashed[a] # Void
        /\ authPc[a] \in {"revealed", "done"} =>
              element[a] # Void /\ elementHashed[a] # Void

\* an authority has revealed while another one has not committed yet
C8_Witness ==
    \E a, b \in Authorities :
        /\ authPc[a] = "revealed"
        /\ element[a] # Void
        /\ elementHashed[b] = Void

-----------------------------------------------------------------------------
(* Properties of the handshake-signature path (HandshakeSpec).              *)

\* C9: a handshake nonce is single-use: once a key request was checked
\* against it, a second key request with no new Start handshake obtains no
\* fragment.
C9_NonceSingleUse ==
    \A r \in Readers : keys_per_nonce[r] <= 1

\* C10: on the handshake-signature path a fragment is issued only if the
\* directory entry of the reader names the reader and the signature verifies
\* under the key of that entry against the number stored for the reader.
C10_FragmentOnlyForValidSignature ==
    \A c \in Conns :
        KeyIssuedHandshake(c) =>
            LET r == conn[c].req.reader IN
            /\ handshake_numbers[r] # 0
            /\ reader_keys[r].address = r
            /\ PowMod(conn[c].req.signature, reader_keys[r].e,
                      reader_keys[r].n) = Sha512(handshake_numbers[r])

\* a reader obtained a fragment with its signature on the stored number,
\* and a request for a reader whose directory entry names another address,
\* signed so that it verifies under the key of that entry, obtained none
C10_Witness ==
    \E c1, c2 \in Conns :
        /\ KeyIssuedHandshake(c1)
        /\ conn[c2].req.cmd = CmdGenerate
        /\ conn[c2].req.tag = authority_number
        /\ conn[c2].pc = "awaiting"
        /\ reader_keys[conn[c2].req.reader].address # conn[c2].req.reader
        /\ SignatureMatches(conn[c2].req.reader, conn[c2].req.signature)
        /\ conn[c2].resp.kind = "none"

-----------------------------------------------------------------------------
(* Properties of the reader's run (ReaderSpec).                             *)

\* the slice actual_decryption was called on, when it was called
DecryptedSlice == rd.record.header[rd.decrypted[1]]

\* the record was fetched
RecordFetched == rd.record # NoRecord

C13_FailedRequestAbortsRun ==
    /\ (\E i \in 1..Len(rd.responses) : rd.responses[i] # "key")
          => /\ rd.pc \in {"failed", "blocked"}
             /\ ~RecordFetched
             /\ rd.decrypted = <<>>
             /\ rd.output = NoFile
    /\ (RecordFetched \/ rd.pc = "collected")
          => /\ \A i \in 1..Len(rd.responses) : rd.responses[i] = "key"
             /\ Len(rd.responses) = Cardinality({ t.auth : t \in rd.table })

\* the first authority returned a fragment, the second an error: the run has
\* failed with the first fragment collected
C13_Witness ==
    /\ Len(rd.responses) = 2
    /\ rd.responses[1] = "key"
    /\ rd.responses[2] = "error"
    /\ rd.merged # EmptyDict
    /\ rd.pc = "failed"

\* C14: a slice of a fetched record is decrypted only if the record's
\* process instance and message id are the requested ones and its sender is
\* the one the ledger recorded; on a mismatch the run fails without output.
C14_DecryptOnlyOnMatchingMetadata ==
    /\ rd.decrypted # <<>> =>
          /\ rd.record.metadata.process_instance_id = ProcessInstanceId
          /\ rd.record.metadata.message_id = MessageId
          /\ rd.record.metadata.sender = rd.record.ledger_sender
    /\ ( /\ RecordFetched
         /\ \/ rd.record.metadata.process_instance_id # ProcessInstanceId
            \/ rd.record.metadata.message_id # MessageId
            \/ rd.record.metadata.sender # rd.record.ledger_sender )
       => /\ rd.pc = "failed"
          /\ rd.decrypted = <<>>
          /\ rd.output = NoFile

\* a record whose only mismatch is the sender, holding one slice the
\* collected key satisfies, made the run fail
C14_Witness ==
    /\ RecordFetched
    /\ rd.record.metadata.process_instance_id = ProcessInstanceId
    /\ rd.record.metadata.message_id = MessageId
    /\ rd.record.metadata.sender # rd.record.ledger_sender
    /\ Len(rd.record.header) = 1
    /\ rd.record.header[1].intact
    /\ maabe_decrypt([GID |-> ReaderAddress, keys |-> rd.merged],
                     rd.record.header[1].policy)
    /\ rd.pc = "failed"

\* C15: of a record with more than one slice at most one slice is decrypted,
\* and only one whose slice id is the requested one; when no slice of it
\* matches, or the record holds no slice, the run fails without output.
C15_OnlyRequestedSlice ==
    /\ Len(rd.decrypted) <= 1
    /\ (Len(rd.record.header) > 1 /\ rd.decrypted # <<>>)
          => DecryptedSlice.Slice_id = rd.slice_id
    /\ ( /\ RecordFetched
         /\ \/ Len(rd.record.header) = 0
            \/ /\ Len(rd.record.header) > 1
               /\ \A i \in 1..Len(rd.record.header) :
                     rd.record.header[i].Slice_id # rd.slice_id )
       => /\ rd.pc = "failed"
          /\ rd.decrypted = <<>>
          /\ rd.output = NoFile

\* of a record with two slices the second one, which has the requested id,
\* was decrypted and written, the first one satisfying the key as well
C15_Witness ==
    /\ Len(rd.record.header) = 2
    /\ rd.record.header[1].Slice_id # rd.slice_id
    /\ rd.record.header[1].intact
    /\ maabe_decrypt([GID |-> ReaderAddress, keys |-> rd.merged],
                     rd.record.header[1].policy)
    /\ rd.decrypted = <<2>>
    /\ rd.pc = "done"
    /\ rd.output = rd.record.header[2].file

C17_MergeLastWriteWins ==
    /\ DOMAIN rd.merged =
          UNION { DOMAIN rd.received[i] : i \in 1..Len(rd.received) }
    /\ \A k \in DOMAIN rd.merged :
          LET holders == { i \in 1..Len(rd.received) :
                             k \in DOMAIN rd.received[i] }
              last == CHOOSE i \in holders : \A j \in holders : j <= i
          IN rd.merged[k] = rd.received[last][k]

\* two fragments were merged that share a key and differ in its value
C17_Witness ==
    /\ Len(rd.received) = 2
    /\ \E k \in DOMAIN rd.received[1] \cap DOMAIN rd.received[2] :
          rd.received[1][k] # rd.received[2][k]

\* C18: once the reader has gone through its authorities, for every tuple it
\* holds a request with a proof built from that tuple was sent to the
\* tuple's authority.
C18_RequestForEveryTuple ==
    rd.pc = "collected" =>
        \A t \in rd.table :
            \E i \in 1..Len(rd.sent) :
                /\ rd.sent[i].tag = t.auth
                /\ rd.sent[i].signals[1] = Commitment(t)

-----------------------------------------------------------------------------
(* Properties of the certifier's runs (CertifierSpec).                      *)

\* the secrets the certifier holds, in memory or in its private store
SecretsHeld ==
    { cert.store[k].secret : k \in DOMAIN cert.store }
    \cup UNION { { cert.attribute_commitments[address][key].secret :
                     key \in DOMAIN cert.attribute_commitments[address] } :
                 address \in DOMAIN cert.attribute_commitments }

\* the labels of the roles files
InputLabels ==
    UNION { UNION { { roles[address][i] : i \in 1..Len(roles[address]) } :
                    address \in DOMAIN roles } : roles \in RolesFiles }

\* C12: a ledger transaction of the certifier carries the process instance,
\* the bundle's identifier, the user, the authority id, the attribute type
\* and the commitment, and a bundle carries the process instance and the
\* users' labels: no field of either is a secret the certifier holds.
C12_OnlyCommitmentsAndLabelsPublished ==
    /\ \A tx \in cert.ledger :
          /\ DOMAIN tx = {"process_instance_id", "ipfs_hash", "gid",
                          "auth_id", "attr_type", "commitment"}
          /\ tx.ipfs_hash[2] \in cert.content_store
          /\ \A s \in SecretsHeld :
                /\ tx.commitment # ToDigits(s)
                /\ tx.process_instance_id # s
                /\ tx.auth_id # s
                /\ tx.attr_type # s
    /\ \A bundle \in cert.content_store :
          /\ DOMAIN bundle = {"process_instance_id", "dict_users"}
          /\ bundle.process_instance_id \notin SecretsHeld
          /\ \A address \in DOMAIN bundle.dict_users :
                \A label \in bundle.dict_users[address] :
                    /\ DOMAIN label = {"value", "auth"}
                    /\ label \in InputLabels
                           \cup { Label(PI, a) : a \in Authorities }
                    /\ label.auth \notin SecretsHeld

\* a run has published transactions and a bundle, and the private store
\* holds the secrets
C12_Witness ==
    /\ cert.pc = "idle"
    /\ cert.ledger # {}
    /\ cert.content_store # {}
    /\ \E k \in DOMAIN cert.store : cert.store[k].secret \in SecretPool

\* C19: when a run of the certifier has ended, every attribute of every role
\* of its input has a ledger transaction with the commitment of its tuple
\* and a row with its value in the private store.
C19_EveryInputAttributeCertified ==
    (cert.pc = "idle" /\ cert.runs > 0) =>
        \A address \in DOMAIN cert.roles :
            \A i \in 1..Len(cert.roles[address]) :
                LET attr == cert.roles[address][i]
                    k == <<cert.process_instance_id, address, attr.auth,
                           AttrTypeOf(attr.value)>>
                IN /\ k \in DOMAIN cert.store
                   /\ cert.store[k].value = attr.value
                   /\ \E tx \in cert.ledger :
                         /\ tx.process_instance_id = cert.process_instance_id
                         /\ tx.gid = address
                         /\ tx.auth_id = attr.auth
                         /\ tx.attr_type = AttrTypeOf(attr.value)
                         /\ \E s \in SecretPool :
                               tx.commitment =
                                  Commitment(CertifiedTuple(
                                     [value |-> attr.value, auth |-> attr.auth,
                                      secret |-> s]))

\* C20: no step of the certifier changes the commitment or the secret its
\* private store holds for a key (process instance, reader, authority id,
\* attribute type).
C20_RegistryEntryImmutable ==
    [][ \A k \in DOMAIN cert.store :
           /\ k \in DOMAIN cert'.store
           /\ cert'.store[k].commitment = cert.store[k].commitment
           /\ cert'.store[k].secret = cert.store[k].secret ]_vars

-----------------------------------------------------------------------------
(* Properties of the commitment function (CodecSpec).                       *)

\* C21: any two calls of the commitment function on different tuples of the
\* corpus give different commitments.
C21_DistinctTuplesDistinctCommitments ==
    \A i, j \in 1..Len(codec) :
        codec[i].tuple # codec[j].tuple
            => codec[i].commitment # codec[j].commitment

\* C22: any two calls of the commitment function on the same tuple, by the
\* certifier or by the reader, give the same commitment, and a call changes
\* nothing but the record of its own result.
C22_CommitmentDeterministic ==
    /\ [](\A i, j \in 1..Len(codec) :
            codec[i].tuple = codec[j].tuple
                => codec[i].commitment = codec[j].commitment)
    /\ [][ /\ UNCHANGED <<setupVars, serverVars, rd, cert>>
           /\ SubSeq(codec', 1, Len(codec)) = codec ]_vars

\* the certifier and the reader have each computed the commitment of the
\* same tuple
C22_Witness ==
    \E i, j \in 1..Len(codec) :
        /\ codec[i].component = "certifier"
        /\ codec[j].component = "reader"
        /\ codec[i].tuple = codec[j].tuple

-----------------------------------------------------------------------------
(* Properties of the parameter agreement's wait loop (SetupLiveSpec).       *)

\* C23: an authority's wait loop ends only when the entry of every authority
\* is on the ledger; while an entry is missing a poll publishes and stores
\* nothing and the authority stays in the loop; and once every entry is
\* present the loop of a running authority ends.
C23_WaitEndsIffAllRevealed ==
    /\ [](\A a \in Authorities :
            authPc[a] = "done" => \A i \in Authorities : element[i] # Void)
    /\ [][ \A a \in Authorities :
             (authPc[a] = "revealed" /\ FirstMissing # 0)
                => /\ authPc'[a] \in {"revealed", "start"}
                   /\ public_parameters'[a] = public_parameters[a]
                   /\ parametersLink'[a] = parametersLink[a]
                   /\ ipfs' = ipfs ]_vars
    /\ \A a \in Authorities :
          (authPc[a] = "revealed" /\ FirstMissing = 0)
              ~> (authPc[a] # "revealed")

\* an authority that polled while an entry was missing has later produced
\* the parameters
C23_Witness ==
    \E a \in Authorities :
        /\ retry_count[a] > 0
        /\ authPc[a] = "done"
        /\ public_parameters[a] # Void

-----------------------------------------------------------------------------
(* Properties of sending a transaction (TxnSpec).                           *)

\* C24: a call of __send_txt__ never waits for an answer of the operator:
\* after a failed attempt it retries by itself or raises.
C24_NoInteractiveRetry ==
    txn.pc # "asking" /\ txn.prompts = 0

-----------------------------------------------------------------------------
(* Properties of the stored public parameters (SetupSpec).                  *)

\* C25: once an authority has stored public parameters for the process
\* instance no step changes the stored row, and the link the authority has
\* on the ledger is the link of its stored row.
C25_StoredParametersImmutable ==
    /\ [][ \A a \in Authorities :
             public_parameters[a] # Void
                => public_parameters'[a] = public_parameters[a] ]_vars
    /\ [](\A a \in Authorities :
            parametersLink[a] # Void
                => /\ public_parameters[a] # Void
                   /\ parametersLink[a] = public_parameters[a][1]
                   /\ parametersLink[a] = add_json(public_parameters[a][2]))

\* an authority has completed the parameter generation a second time
C25_Witness ==
    \E a \in Authorities :
        /\ lastAgg[a] # Void
        /\ lastAgg[a][6] >= 2
        /\ authPc[a] = "done"

-----------------------------------------------------------------------------
(* Properties of a connection's life (Spec, HandshakeSpec).                 *)

\* C26: no two connections hold a fragment issued for the same proof and
\* public signals.
C26_ProofConsumedOnce ==
    \A c1, c2 \in Conns :
        (c1 # c2 /\ KeyIssuedZK(c1) /\ KeyIssuedZK(c2))
            => <<conn[c1].req.proof, conn[c1].req.signals>>
                 # <<conn[c2].req.proof, conn[c2].req.signals>>

\* C27: once a key request on a connection was answered with a fragment or
\* an error, the next change of that connection is its closing.
C27_AnsweredThenClosed ==
    [][ \A c \in Conns :
          (conn[c].pc = "awaiting" /\ conn[c].resp.kind \in {"key", "error"})
              => (conn'[c] = conn[c] \/ conn'[c].pc = "closed") ]_vars

\* C28: the step in which a handler ends on the disconnect sentinel sends
\* nothing, stores no number and issues no fragment, and a closed handler
\* handles nothing until a new connection is accepted.
C28_DisconnectEndsSession ==
    [][ \A c \in Conns :
          /\ (conn[c].pc = "awaiting" /\ conn'[c].pc = "closed")
                => /\ conn'[c].resp = NoResp
                   /\ handshake_numbers' = handshake_numbers
                   /\ keys_per_nonce' = keys_per_nonce
                   /\ proof_verifications' = proof_verifications
          /\ conn[c].pc = "closed"
                => \/ conn'[c] = conn[c]
                   \/ conn'[c] = [IdleHandler EXCEPT !.pc = "awaiting"] ]_vars

\* every connection is closed again after a number was stored and a
\* fragment issued on one of them
C28_Witness ==
    /\ \A c \in Conns : conn[c].pc = "closed"
    /\ \E r \in Readers : handshake_numbers[r] # 0 /\ keys_per_nonce[r] >= 1

-----------------------------------------------------------------------------
(* Properties of a client's retrieval of the parameters (RetrievalSpec).    *)

\* C29: a client stores public parameters only when every authority has
\* the same parameters link on the ledger; when two links differ nothing is
\* stored and the reader has ended with an error once the check is done.
C29_StoresOnlyConsistentParameters ==
    LET same == \A a, b \in Authorities : rp.links[a] = rp.links[b]
    IN /\ rp.public_parameters # Void => same
       /\ (rp.pc \notin {"off", "loop", "check"} /\ ~same
             /\ rp.component = "reader")
            => rp.pc \in {"exited", "raised"}

-----------------------------------------------------------------------------
(* Properties of the interleaved setup processes (SetupSpec).               *)

\* C30: whenever the raw elements of an authority are on the ledger, the
\* commitment pair of every authority is on the ledger.
C30_NoRevealBeforeAllCommitted ==
    \A a \in Authorities :
        element[a] # Void => \A b \in Authorities : elementHashed[b] # Void

\* C31: once an authority has run its reveal phase, the elements it has on
\* the ledger are the ones whose hashes are its commitment on the ledger,
\* also after the round was started again for the same process instance.
C31_RevealedMatchesLatestCommitment ==
    \A a \in Authorities :
        (authPc[a] \in {"revealed", "done"} /\ element[a] # Void)
            => elementHashed[a] = commit(Deserialize(element[a][1]),
                                         Deserialize(element[a][2]))

-----------------------------------------------------------------------------
(* Properties of the handshake-signature path, continued (HandshakeSpec).   *)

\* C32: the number a key-request signature is verified against is the number
\* of the most recent "Number to sign" response for that reader: every step
\* that sends such a response leaves the number it sent as the stored one
\* (no other step changes the stored numbers), on any connection.
C32_VerifiesAgainstLatestNonce ==
    [][\A c \in Conns :
          (conn'[c] # conn[c] /\ conn'[c].resp.kind = "number")
            => handshake_numbers'[conn'[c].req.reader] = conn'[c].resp.number
      ]_vars

-----------------------------------------------------------------------------
(* Properties of the proof-gated path, continued (Spec).                    *)

\* C33: a fragment bound to global id G carries only attribute labels
\* certified for G, whatever gid and reader address the request carried.
C33_FragmentLabelsCertifiedForGid ==
    \A c \in Conns :
        conn[c].resp.kind = "key"
            => /\ conn[c].resp.key.GID \in Readers
               /\ conn[c].resp.key.attrs
                     \subseteq dict_users[conn[c].resp.key.GID]

-----------------------------------------------------------------------------
(* Properties of the distribution of attributes (DistributionSpec).         *)

-----------------------------------------------------------------------------
(* Properties of the handler's responses (HandshakeSpec).                   *)

\* C35: once a handler has handled a key request carrying its own authority
\* tag, the response it sent for it is a partial key or an error message.
C35_EveryKeyRequestAnswered ==
    \A c \in Conns :
        (conn[c].req.cmd \in {CmdGenerate, CmdZK}
           /\ conn[c].req.tag = authority_number
           /\ conn[c].pc # "verified")
            => conn[c].resp.kind \in {"key", "error"}

-----------------------------------------------------------------------------
(* Properties of a handler whose client is gone (PeerSpec).                 *)

\* C36: a connection whose peer closed the stream without the sentinel is
\* eventually closed by its handler.
C36_ClosedOncePeerGone ==
    \A c \in Conns : (conn[c].pc = "eof") ~> (conn[c].pc = "closed")

-----------------------------------------------------------------------------
(* Properties of the published ciphertext record (CipherSpec).              *)

\* C37: no slice of the record in the content store carries a key under
\* which its payload decrypts, and the key a reader decrypted a payload with
\* is not the key it would have used for every other result of the
\* policy-gated decryption.
C37_RecordCarriesNoKeyMaterial ==
    /\ \A i \in DOMAIN enc.json_total.header :
          LET d == enc.json_total.header[i]
          IN ~ /\ "SymmetricKey" \in DOMAIN d
               /\ cryptocode_decrypt(d.EncryptedFile, d.SymmetricKey)
                    # DecryptFailed
    /\ enc.pc = "read" =>
          \E v \in GTElems :
              reader_symmetric_key(enc.json_total.header[enc.slice], v)
                # enc.symmetric_key

-----------------------------------------------------------------------------
(* Properties of a server with proof verification disabled (Spec).          *)

\* C38: on a server whose proof verification is disabled no response is a
\* fragment, and every ZK-Generate request carrying the server's tag that
\* the handler has dealt with was answered with an error.
C38_DisabledVerifierIssuesNothing ==
    ~zk_enabled =>
        \A c \in Conns :
            /\ conn[c].resp.kind # "key"
            /\ (conn[c].req.cmd = CmdZK
                  /\ conn[c].req.tag = authority_number
                  /\ conn[c].pc # "verified")
                 => conn[c].resp.kind = "error"

\* a disabled server answered with an error a request whose proof verifies
\* and is for this authority
C38_Witness ==
    /\ ~zk_enabled
    /\ \E c \in Conns :
          /\ conn[c].req.cmd = CmdZK
          /\ conn[c].req.tag = authority_number
          /\ conn[c].pc = "awaiting"
          /\ conn[c].resp.kind = "error"
          /\ conn[c].req.nfields >= 6 /\ conn[c].req.json
          /\ ProofIsForThisAuthority(conn[c].req.signals)
          /\ verify_proof_offchain(conn[c].req.proof, conn[c].req.signals)

-----------------------------------------------------------------------------
(* Properties of a key request without a handshake (HandshakeSpec).         *)

\* C39: a fragment on the handshake path is only ever the answer to a
\* request of a reader for which a number is stored, and a step in which a
\* handler deals with a key request of a reader with no stored number
\* sends no fragment and changes none of the server's tables.
C39_NoHandshakeNoFragment ==
    /\ [](\A c \in Conns :
             KeyIssuedHandshake(c)
                => handshake_numbers[conn[c].req.reader] # 0)
    /\ [][\A c \in Conns :
             (conn'[c] # conn[c]
                /\ conn'[c].req.cmd = CmdGenerate
                /\ handshake_numbers[conn'[c].req.reader] = 0)
               => /\ conn'[c].resp.kind # "key"
                  /\ handshake_numbers' = handshake_numbers
                  /\ keys_per_nonce' = keys_per_nonce
                  /\ proof_verifications' = proof_verifications
                  /\ reader_keys' = reader_keys
         ]_vars

\* a handler dealt with a key request of a reader with no stored number
\* while a number is stored for the other reader, who obtained a fragment
C39_Witness ==
    \E c, d \in Conns :
        /\ conn[c].pc = "crashed"
        /\ conn[c].req.cmd = CmdGenerate
        /\ handshake_numbers[conn[c].req.reader] = 0
        /\ KeyIssuedHandshake(d)
        /\ handshake_numbers[conn[d].req.reader] # 0

=============================================================================
